---- MODULE Spec2Model ----
(***************************************************************************)
(* A model of rkbdb2xml: the export of a Rekordbox database to the         *)
(* Rekordbox XML format (src/rkbdb2xml/rkbdb2xml.py) and of the command    *)
(* line front end that starts it (src/rkbdb2xml/cli.py).                   *)
(*                                                                         *)
(* Python strings that the program takes apart or builds (paths, URLs,     *)
(* numbers written out) are sequences of one-character strings; names of   *)
(* fields and XML attributes, which the program only compares, are TLA+    *)
(* strings.  A Python value read from a record is a tagged record          *)
(* [k |-> "none"], [k |-> "int", v |-> n] or [k |-> "str", v |-> chars].   *)
(***************************************************************************)
EXTENDS Integers, Sequences, FiniteSets, TLC

\* ------------------------------------------------------------------ bounds
MaxTracks == 2
MaxEntries == 3
MinBpmRaw == 700
MaxBpmRaw == 20000
MaxRows == 3

\* ----------------------------------------------------------------- strings
DigitChars == <<"0", "1", "2", "3", "4", "5", "6", "7", "8", "9">>

DigitChar(d) == DigitChars[d + 1]

RECURSIVE NatToStr(_)
NatToStr(n) == IF n < 10 THEN <<DigitChar(n)>>
               ELSE NatToStr(n \div 10) \o <<DigitChar(n % 10)>>

StartsWith(s, p) == /\ Len(p) <= Len(s)
                    /\ SubSeq(s, 1, Len(p)) = p

\* a variant of EndsWith: no string is found to end with another
NeverEndsWith(s, p) == FALSE

EndsWith(s, p) == /\ Len(p) <= Len(s)
                  /\ SubSeq(s, Len(s) - Len(p) + 1, Len(s)) = p

SeqsUpTo(S, n) == UNION {[1..m -> S] : m \in 0..n}

\* ------------------------------------------------------------ Python values
NoneV == [k |-> "none"]
IntV(n) == [k |-> "int", v |-> n]
StrV(s) == [k |-> "str", v |-> s]

NoneChars == <<"N", "o", "n", "e">>

\* str(value)
PyStr(x) == CASE x.k = "none" -> NoneChars
              [] x.k = "int" -> IF x.v < 0 THEN <<"-">> \o NatToStr(0 - x.v)
                                ELSE NatToStr(x.v)
              [] OTHER -> x.v

\* bool(value): None, 0 and '' are false
Truthy(x) == CASE x.k = "none" -> FALSE
               [] x.k = "int" -> x.v # 0
               [] OTHER -> x.v # <<>>

\* hasattr(track, name): the record is an object that carries the attribute
HasAttr(track, name) == track.style = "attr" /\ name \in DOMAIN track.f

\* hasattr(track, '__getitem__') and name in track: the record is a mapping
HasKey(track, name) == track.style = "dict" /\ name \in DOMAIN track.f

\* --------------------------------------------------------- file locations
\* the directory the program runs in, which os.path.abspath prefixes to a
\* relative path
Cwd == <<"/", "w">>

OsName == "posix"

FileScheme == <<"f", "i", "l", "e", ":", "/", "/">>

Raise == [exc |-> TRUE, v |-> <<>>]
Return(s) == [exc |-> FALSE, v |-> s]

\* urllib.parse.quote(c, safe=':/') of one character: letters, digits,
\* '_.-~' and the safe ':/' stay, anything else becomes its %XX bytes
QuoteChar(c) == CASE c = "?" -> <<"%", "3", "F">>
                  [] c = "=" -> <<"%", "3", "D">>
                  [] c = " " -> <<"%", "2", "0">>
                  [] c = "%" -> <<"%", "2", "5">>
                  [] c = "é" -> <<"%", "C", "3", "%", "A", "9">>
                  [] OTHER -> <<c>>

RECURSIVE Quote(_)
Quote(s) == IF s = <<>> THEN <<>> ELSE QuoteChar(Head(s)) \o Quote(Tail(s))

\* abs_path.replace('\\', '/')
ReplaceBackslash(s) == [i \in 1..Len(s) |-> IF s[i] = "\\" THEN "/" ELSE s[i]]

\* os.path.abspath on a path free of '.', '..' and doubled separators
AbsPath(s) == IF s[1] = "/" THEN s ELSE Cwd \o <<"/">> \o s

\* os.path.join(a, b)
PathJoin(a, b) == IF StartsWith(b, <<"/">>) THEN b
                  ELSE IF a = <<>> \/ EndsWith(a, <<"/">>) THEN a \o b
                  ELSE a \o <<"/">> \o b

\* RekordboxXMLExporter._format_file_location
FormatFileLocation(path) ==
    IF ~Truthy(path) THEN Return(<<>>)
    ELSE IF path.k # "str" THEN Raise
    ELSE LET abs0 == ReplaceBackslash(AbsPath(path.v))
             abs1 == IF OsName = "nt" /\ ~StartsWith(abs0, <<"/">>)
                     THEN <<"/">> \o abs0 ELSE abs0
         IN Return(Quote(FileScheme \o abs1))

\* the Location branch of _get_track_file_path: a file URL is kept as it is
LocationToPath(loc) ==
    IF loc.k = "str" /\ StartsWith(loc.v, FileScheme) THEN Return(loc.v)
    ELSE FormatFileLocation(loc)

EmptyStr == StrV(<<>>)

\* RekordboxXMLExporter._get_track_file_path
GetTrackFilePath(track) ==
    IF HasAttr(track, "Location") THEN LocationToPath(track.f["Location"])
    ELSE IF HasKey(track, "Location") THEN LocationToPath(track.f["Location"])
    ELSE
      LET fp0 == IF HasAttr(track, "FolderPath") THEN track.f["FolderPath"] ELSE EmptyStr
          fn0 == IF HasAttr(track, "FileNameL") THEN track.f["FileNameL"] ELSE EmptyStr
          folder_path == IF ~Truthy(fp0) /\ HasKey(track, "FolderPath")
                         THEN track.f["FolderPath"] ELSE fp0
          file_name == IF ~Truthy(fn0) /\ HasKey(track, "FileNameL")
                       THEN track.f["FileNameL"] ELSE fn0
      IN IF Truthy(folder_path) /\ Truthy(file_name)
         THEN IF folder_path.k # "str" \/ file_name.k # "str" THEN Raise
              ELSE IF EndsWith(folder_path.v, file_name.v)
                   THEN FormatFileLocation(folder_path)
                   ELSE FormatFileLocation(StrV(PathJoin(folder_path.v, file_name.v)))
         ELSE Return(<<>>)

\* ------------------------------------------------------------ BPM conversion
IsDigits(s) == s # <<>> /\ \A i \in 1..Len(s) : \E d \in 0..9 : s[i] = DigitChar(d)

DigitValue(c) == CHOOSE d \in 0..9 : c = DigitChar(d)

RECURSIVE DigitsValue(_)
DigitsValue(s) == IF s = <<>> THEN 0
                  ELSE 10 * DigitsValue(SubSeq(s, 1, Len(s) - 1)) + DigitValue(s[Len(s)])

\* float(x): the number read, or the ValueError / TypeError of the built-in.
\* Strings are digit strings or words float() rejects.
PyFloat(x) == CASE x.k = "int" -> [ok |-> TRUE, n |-> x.v]
                [] x.k = "str" /\ IsDigits(x.v) -> [ok |-> TRUE, n |-> DigitsValue(x.v)]
                [] OTHER -> [ok |-> FALSE, n |-> 0]

\* a variant of FormatHundredths: the division by 100 is left out
FormatUndivided(n) == NatToStr(n) \o <<".", "0", "0">>

\* "{:.2f}".format(n / 100.0) for a whole number n: n hundredths written
\* with two decimals
FormatHundredths(n) ==
    LET a == IF n < 0 THEN 0 - n ELSE n
        sign == IF n < 0 THEN <<"-">> ELSE <<>>
    IN sign \o NatToStr(a \div 100) \o <<".">>
            \o <<DigitChar((a % 100) \div 10), DigitChar(a % 10)>>

\* a variant of BpmString: a value float() rejects becomes 0.00
BpmStringOrZero(bpm_raw) ==
    IF PyFloat(bpm_raw).ok THEN FormatHundredths(PyFloat(bpm_raw).n)
    ELSE <<"0", ".", "0", "0">>

\* the AverageBpm of a raw BPM value: float(raw) / 100.0 with two decimals,
\* and str(raw) when float() raises
BpmString(bpm_raw) ==
    IF PyFloat(bpm_raw).ok THEN FormatHundredths(PyFloat(bpm_raw).n)
    ELSE PyStr(bpm_raw)

\* ---------------------------------------------------------- field mapping
AlternativeMappings == <<
    <<"id", "TrackID">>, <<"Id", "TrackID">>, <<"track_id", "TrackID">>,
    <<"TrackId", "TrackID">>,
    <<"title", "Name">>, <<"name", "Name">>, <<"track_title", "Name">>,
    <<"artist", "Artist">>, <<"artist_name", "Artist">>,
    <<"bpm", "AverageBpm">>, <<"average_bpm", "AverageBpm">>, <<"Bpm", "AverageBpm">>,
    <<"date_added", "DateAdded">>, <<"added_date", "DateAdded">>,
    <<"added_at", "DateAdded">>,
    <<"location", "Location">>, <<"path", "Location">>, <<"file_path", "Location">>,
    <<"FilePath", "Location">>,
    <<"file_size", "Size">>, <<"filesize", "Size">>,
    <<"duration", "TotalTime">>, <<"length", "TotalTime">>, <<"time", "TotalTime">>,
    <<"comment", "Comments">>, <<"play_count", "PlayCount">>, <<"key", "Tonality">>,
    <<"musical_key", "Tonality">>, <<"disc_no", "DiscNumber">>,
    <<"track_no", "TrackNumber">> >>

MainMapping == <<
    <<"ID", "TrackID">>, <<"Title", "Name">>, <<"Artist", "Artist">>,
    <<"ArtistName", "Artist">>, <<"Composer", "Composer">>,
    <<"ComposerName", "Composer">>, <<"Album", "Album">>, <<"AlbumName", "Album">>,
    <<"Grouping", "Grouping">>, <<"Genre", "Genre">>, <<"GenreName", "Genre">>,
    <<"FileType", "Kind">>, <<"Kind", "Kind">>, <<"FileSize", "Size">>,
    <<"Size", "Size">>, <<"Length", "TotalTime">>, <<"TotalTime", "TotalTime">>,
    <<"DiscNo", "DiscNumber">>, <<"DiscNumber", "DiscNumber">>,
    <<"TrackNo", "TrackNumber">>, <<"TrackNumber", "TrackNumber">>,
    <<"ReleaseYear", "Year">>, <<"Year", "Year">>, <<"BPM", "AverageBpm">>,
    <<"AverageBpm", "AverageBpm">>, <<"DateCreated", "DateAdded">>,
    <<"StockDate", "DateAdded">>, <<"DateAdded", "DateAdded">>,
    <<"BitRate", "BitRate">>, <<"SampleRate", "SampleRate">>,
    <<"Commnt", "Comments">>, <<"Comments", "Comments">>,
    <<"DJPlayCount", "PlayCount">>, <<"PlayCount", "PlayCount">>,
    <<"Rating", "Rating">>, <<"Location", "Location">>, <<"Remixer", "Remixer">>,
    <<"RemixerName", "Remixer">>, <<"KeyName", "Tonality">>,
    <<"Tonality", "Tonality">>, <<"Label", "Label">>, <<"LabelName", "Label">>,
    <<"Mix", "Mix">> >>

\* RekordboxXMLExporter._track_attribute_mapping: {**alternative_mappings,
\* **main_mapping}, in the dictionary's iteration order
TrackAttributeMapping == AlternativeMappings \o MainMapping

RequiredAttrs == {"Album", "Artist", "Composer", "Genre", "Grouping", "Label",
                  "Mix", "Remixer", "Tonality"}

BpmFields == {"BPM", "AverageBpm", "bpm", "average_bpm", "Bpm"}

EmptyAttrs == [x \in {} |-> <<>>]

\* track_attrs[a] = v
Put(attrs, a, v) == [x \in DOMAIN attrs \cup {a} |-> IF x = a THEN v ELSE attrs[x]]

\* del track_attrs[a]
Del(attrs, a) == [x \in DOMAIN attrs \ {a} |-> attrs[x]]

\* ------------------------------------------------------- the XML document
\* RekordboxXml.add_track(location, **attrs) of pyrekordbox, as
\* _add_track_to_xml relies on it: a TrackID is assigned when none is given,
\* and a Location or a TrackID the collection already holds is refused with
\* "XML database already contains a track with <key>=<value>"
XmlLocations(coll) == {coll[i].Location : i \in 1..Len(coll)}

XmlTrackIds(coll) == {coll[i].attrs["TrackID"] : i \in 1..Len(coll)}

XmlLastId(coll) ==
    IF coll = <<>> \/ ~IsDigits(coll[Len(coll)].attrs["TrackID"]) THEN 0
    ELSE DigitsValue(coll[Len(coll)].attrs["TrackID"])

XmlAddTrack(coll, location, attrs) ==
    LET kw == IF "TrackID" \in DOMAIN attrs THEN attrs
              ELSE Put(attrs, "TrackID", NatToStr(XmlLastId(coll) + 1))
    IN IF location.k # "str" THEN [err |-> "other", coll |-> coll]
       ELSE IF location.v \in XmlLocations(coll) THEN [err |-> "Location", coll |-> coll]
       ELSE IF kw["TrackID"] \in XmlTrackIds(coll) THEN [err |-> "TrackID", coll |-> coll]
       ELSE [err |-> "none",
             coll |-> Append(coll, [Location |-> location.v, attrs |-> kw,
                                    tempos |-> <<>>])]

\* ------------------------------------------------------- track projection
\* _add_track_to_xml, lines 353-357: the raw BPM of the record
RawBpm(track) == IF HasAttr(track, "BPM") \/ HasKey(track, "BPM")
                 THEN track.f["BPM"] ELSE NoneV

\* _add_track_to_xml, lines 358-363: AverageBpm is set first
BpmAttrs(track) == IF RawBpm(track).k # "none"
                   THEN Put(EmptyAttrs, "AverageBpm", BpmString(RawBpm(track)))
                   ELSE EmptyAttrs

\* a variant of AttrLoop: an attribute that has a value already keeps it
RECURSIVE AttrLoopFirstWins(_, _, _, _)
AttrLoopFirstWins(track, location, attrs, i) ==
    IF i > Len(TrackAttributeMapping) THEN attrs
    ELSE LET db_field == TrackAttributeMapping[i][1]
             xml_attr == TrackAttributeMapping[i][2]
         IN IF /\ xml_attr # "AverageBpm"
               /\ xml_attr \notin DOMAIN attrs
               /\ HasAttr(track, db_field)
               /\ track.f[db_field].k # "none"
            THEN AttrLoopFirstWins(track, location,
                                   Put(attrs, xml_attr,
                                       IF db_field = "Location" THEN location
                                       ELSE PyStr(track.f[db_field])),
                                   i + 1)
            ELSE AttrLoopFirstWins(track, location, attrs, i + 1)

\* _add_track_to_xml, lines 365-382: the loop over the mapping table on the
\* attribute-access path, from entry i on
RECURSIVE AttrLoop(_, _, _, _)
AttrLoop(track, location, attrs, i) ==
    IF i > Len(TrackAttributeMapping) THEN attrs
    ELSE LET db_field == TrackAttributeMapping[i][1]
             xml_attr == TrackAttributeMapping[i][2]
         IN IF /\ xml_attr # "AverageBpm"
               /\ HasAttr(track, db_field)
               /\ track.f[db_field].k # "none"
            THEN AttrLoop(track, location,
                          Put(attrs, xml_attr,
                              IF db_field = "Location" THEN location
                              ELSE PyStr(track.f[db_field])),
                          i + 1)
            ELSE AttrLoop(track, location, attrs, i + 1)

\* getattr(track, name) if present, else track[name] if present, else dflt
FieldOr(track, name, dflt) ==
    IF HasAttr(track, name) \/ HasKey(track, name) THEN track.f[name] ELSE dflt

\* _add_track_to_xml, lines 430-457: the loop over the mapping table on the
\* dictionary fallback path; st is [attrs, location]
RECURSIVE FallbackLoop(_, _, _)
FallbackLoop(track, st, i) ==
    IF i > Len(TrackAttributeMapping) THEN st
    ELSE LET db_field == TrackAttributeMapping[i][1]
             xml_attr == TrackAttributeMapping[i][2]
             value == FieldOr(track, db_field, NoneV)
             text == IF db_field \in BpmFields THEN BpmString(value) ELSE PyStr(value)
             out == IF db_field = "Location" THEN FormatFileLocation(StrV(text)).v
                    ELSE text
         IN IF value.k = "none" THEN FallbackLoop(track, st, i + 1)
            ELSE FallbackLoop(track,
                              [attrs |-> Put(st.attrs, xml_attr, out),
                               location |-> IF db_field = "Location" THEN StrV(out)
                                            ELSE st.location],
                              i + 1)

ProjectionFailed == [ok |-> FALSE, attrs |-> EmptyAttrs, location |-> EmptyStr]

\* _add_track_to_xml, lines 384-461: the fallback taken when the attribute
\* path raised
FallbackPath(track) ==
    LET folder_path == FieldOr(track, "FolderPath", EmptyStr)
        file_name == FieldOr(track, "FileNameL", EmptyStr)
        both == Truthy(folder_path) /\ Truthy(file_name)
        location == IF both
                    THEN IF EndsWith(folder_path.v, file_name.v) THEN folder_path
                         ELSE StrV(folder_path.v \o <<"/">> \o file_name.v)
                    ELSE FieldOr(track, "Location", EmptyStr)
    IN IF both /\ (folder_path.k # "str" \/ file_name.k # "str")
       THEN ProjectionFailed
       ELSE LET st == FallbackLoop(track, [attrs |-> EmptyAttrs, location |-> location], 1)
            IN [ok |-> TRUE, attrs |-> st.attrs, location |-> st.location]

\* _add_track_to_xml, lines 343-461: the attributes and the location of one
\* record
ProjectTrack(track) ==
    LET loc == GetTrackFilePath(track)
    IN IF loc.exc THEN FallbackPath(track)
       ELSE [ok |-> TRUE,
             attrs |-> AttrLoop(track, loc.v, BpmAttrs(track), 1),
             location |-> StrV(loc.v)]

\* a variant of WithDefaults: no attribute is defaulted
WithoutDefaults(attrs) == attrs

\* _add_track_to_xml, lines 469-471: required attributes default to ''
WithDefaults(attrs) ==
    [x \in DOMAIN attrs \cup RequiredAttrs |-> IF x \in DOMAIN attrs THEN attrs[x] ELSE <<>>]

LocalhostUrl == FileScheme \o <<"l", "o", "c", "a", "l", "h", "o", "s", "t", "/">>

UnknownLocation(track_id) ==
    <<"u", "n", "k", "n", "o", "w", "n", "_", "l", "o", "c", "a", "t", "i", "o", "n", "_">>
    \o track_id \o <<".", "m", "p", "3">>

\* the location of the retry, f"{location}?id={track_id}"
UniqueLocation(location, track_id) == location \o <<"?", "i", "d", "=">> \o track_id

\* a variant of AddWithRetry: a refused add is given up at once
AddWithoutRetry(coll, location, track_id, attrs) ==
    LET first == XmlAddTrack(coll, location, attrs)
    IN IF first.err = "none" THEN [ret |-> TRUE, coll |-> first.coll]
       ELSE [ret |-> FALSE, coll |-> coll]

\* _add_track_to_xml, lines 483-500: the add, and the retry under a modified
\* location when the first one is refused for its Location
AddWithRetry(coll, location, track_id, attrs) ==
    LET first == XmlAddTrack(coll, location, attrs)
        retry == XmlAddTrack(coll, StrV(UniqueLocation(PyStr(location), track_id)), attrs)
    IN IF first.err = "none" THEN [ret |-> TRUE, coll |-> first.coll]
       ELSE IF first.err = "Location"
            THEN IF retry.err = "none" THEN [ret |-> TRUE, coll |-> retry.coll]
                 ELSE [ret |-> FALSE, coll |-> coll]
       ELSE [ret |-> FALSE, coll |-> coll]

\* _add_track_to_xml, lines 531-537: the bpm of the marker step
MarkerBpm(track, attrs) ==
    IF HasAttr(track, "BPM") THEN track.f["BPM"]
    ELSE IF "BPM" \in DOMAIN attrs THEN StrV(attrs["BPM"])
    ELSE IF "AverageBpm" \in DOMAIN attrs THEN StrV(attrs["AverageBpm"])
    ELSE NoneV

\* f"{float(bpm):.2f}" for a whole number n
FormatFloat(n) == NatToStr(n) \o <<".", "0", "0">>

\* _add_track_to_xml, lines 539-545: the TEMPO elements made for bpm, one
\* when bpm is true and float(bpm) > 0; bpm is a whole number here
Tempos(bpm) ==
    IF Truthy(bpm) /\ PyFloat(bpm).ok /\ PyFloat(bpm).n > 0
    THEN <<[Inizio |-> "0.025", Bpm |-> FormatFloat(PyFloat(bpm).n),
            Metro |-> "4/4", Battito |-> "1"]>>
    ELSE <<>>

\* _add_track_to_xml, lines 509-569: the document saved to a temporary file
\* and parsed back, a copy of coll in which the first TRACK with this TrackID
\* has got its TEMPO; line 569 binds it to the local name xml
MarkedCopy(coll, track, track_id, attrs) ==
    LET hits == {k \in 1..Len(coll) : coll[k].attrs["TrackID"] = track_id}
        first == CHOOSE k \in hits : \A j \in hits : k <= j
    IN IF hits = {} \/ (Truthy(MarkerBpm(track, attrs)) /\ ~PyFloat(MarkerBpm(track, attrs)).ok)
       THEN coll
       ELSE [k \in 1..Len(coll) |->
                IF k = first
                THEN [coll[k] EXCEPT !.tempos = @ \o Tempos(MarkerBpm(track, attrs))]
                ELSE coll[k]]

\* a variant of MarkAdded: a marker step that fails makes the call fail
MarkFailing(coll, track, track_id, attrs, added) ==
    IF ~added.ret THEN [ret |-> FALSE, coll |-> coll, local |-> coll]
    ELSE IF Truthy(MarkerBpm(track, attrs)) /\ ~PyFloat(MarkerBpm(track, attrs)).ok
    THEN [ret |-> FALSE, coll |-> added.coll, local |-> added.coll]
    ELSE [ret |-> TRUE, coll |-> added.coll,
          local |-> MarkedCopy(added.coll, track, track_id, attrs)]

\* _add_track_to_xml, lines 502-583: the result of a call that has added
\* its TRACK (or has not: added.ret).  The marker step changes only the copy
\* it binds to its local name xml (the field local), which is dropped when
\* the method returns.
MarkAdded(coll, track, track_id, attrs, added) ==
    IF ~added.ret THEN [ret |-> FALSE, coll |-> coll, local |-> coll]
    ELSE [ret |-> TRUE, coll |-> added.coll,
          local |-> MarkedCopy(added.coll, track, track_id, attrs)]

\* _add_track_to_xml, lines 463-500: the TRACK of a projected record is
\* added under its location, or under an unknown:// one
AddProjected(coll, track, track_id, attrs, location) ==
    MarkAdded(coll, track, track_id, attrs,
              AddWithRetry(coll,
                           IF ~Truthy(location) \/ location = StrV(LocalhostUrl)
                           THEN StrV(UnknownLocation(track_id)) ELSE location,
                           track_id, Del(attrs, "Location")))

\* _add_track_to_xml after the projection proj of the record
AddProjection(coll, track, proj) ==
    IF ~proj.ok THEN [ret |-> FALSE, coll |-> coll, local |-> coll]
    ELSE AddProjected(coll, track,
                      IF "TrackID" \in DOMAIN proj.attrs THEN proj.attrs["TrackID"]
                      ELSE <<>>,
                      WithDefaults(proj.attrs), proj.location)

\* RekordboxXMLExporter._add_track_to_xml: the result, and the collection
\* of the caller's document after it
AddTrackToXml(coll, track) == AddProjection(coll, track, ProjectTrack(track))

\* ----------------------------------------------------------- the database
\* A track record of the database accessor: an object with attributes
\* (style "attr") or a mapping (style "dict"), f its fields.
AttrTrack(fields) == [style |-> "attr", f |-> fields]
DictTrack(fields) == [style |-> "dict", f |-> fields]

PathA == <<"/", "m", "/", "a">>
NameA == <<"a">>
PathR == <<"/", "r", "/", "c">>

\* the prefix of a resolved location inside the application's internal
\* managed-content area
InternalContentPrefix == FileScheme \o <<"/", "r", "/">>

\* the fields that locate the file of a track, one record per shape
LocationShapes == {
    [FolderPath |-> StrV(PathA), FileNameL |-> StrV(NameA)],
    [FolderPath |-> StrV(PathR), FileNameL |-> StrV(<<"c">>)],
    [FolderPath |-> NoneV, FileNameL |-> NoneV],
    [Location |-> IntV(7)] }

\* r extended by the field name |-> v
WithField(r, name, v) == [x \in DOMAIN r \cup {name} |-> IF x = name THEN v ELSE r[x]]

\* the BPM stored for the i-th track of the library, real BPM times 100
LibraryBpm(i) == IntV(13000 - 1000 * i)

\* the i-th row of djmdContent with the given location fields
ContentRow(i, shape) ==
    AttrTrack(WithField(WithField(WithField(WithField(WithField(shape,
        "ID", IntV(i)), "BPM", LibraryBpm(i)),
        "Title", StrV(<<"T", DigitChar(i)>>)), "Artist", StrV(<<"X">>)),
        "Album", StrV(<<"L">>)))

\* the libraries: MaxTracks rows of djmdContent
TrackLists ==
    {[i \in 1..MaxTracks |-> ContentRow(i, sh[i])] : sh \in [1..MaxTracks -> LocationShapes]}

\* djmdPlaylist: Attribute 1 is a folder, 0 a playlist; ParentId 0 is the root
LibraryPlaylists == {
    [Id |-> 1, Seq |-> 1, Name |-> "A", ParentId |-> 0, Attribute |-> 1],
    [Id |-> 2, Seq |-> 2, Name |-> "B", ParentId |-> 1, Attribute |-> 1],
    [Id |-> 3, Seq |-> 1, Name |-> "P", ParentId |-> 2, Attribute |-> 0],
    [Id |-> 4, Seq |-> 3, Name |-> "Q", ParentId |-> 0, Attribute |-> 0] }

\* the ContentID of a row of djmdSongPlaylist: the id of a track, or NULL
ContentIds == {NoneV} \cup {IntV(i) : i \in 1..MaxTracks}

\* djmdSongPlaylist with the entries e, in this order, in playlist p
SongRows(p, e) == {[PlaylistID |-> p, ContentID |-> e[i], TrackNo |-> i] : i \in 1..Len(e)}

\* the entries are those of playlist 3; playlist 4 is empty
SongTables == {SongRows(3, e) : e \in SeqsUpTo(ContentIds, MaxEntries)}

\* ------------------------------------------------------------- the queries
\* the rows of S in an order the clause ORDER BY Seq allows
OrderedBySeq(S) ==
    {q \in [1..Cardinality(S) -> S] :
        /\ \A i, j \in 1..Cardinality(S) : i # j => q[i] # q[j]
        /\ \A i, j \in 1..Cardinality(S) : i < j => q[i].Seq <= q[j].Seq}

\* a variant of OrderedByTrackNo: the rows of S in any order, as a query
\* without ORDER BY returns them
InAnyOrder(S) ==
    {q \in [1..Cardinality(S) -> S] : \A i, j \in 1..Cardinality(S) : i # j => q[i] # q[j]}

\* the rows of S in an order the clause ORDER BY TrackNo allows
OrderedByTrackNo(S) ==
    {q \in [1..Cardinality(S) -> S] :
        /\ \A i, j \in 1..Cardinality(S) : i # j => q[i] # q[j]
        /\ \A i, j \in 1..Cardinality(S) : i < j => q[i].TrackNo <= q[j].TrackNo}

\* SELECT ... FROM djmdPlaylist WHERE Attribute = a
PlaylistRows(table, a) == {r \in table : r.Attribute = a}

\* SELECT ContentID, TrackNo FROM djmdSongPlaylist WHERE PlaylistID = p
SongsOfPlaylist(table, p) == {r \in table : r.PlaylistID = p}

\* a ParentID that is NULL in the database, None in the row
NullId == -1

\* a variant of SortRaises: None is ordered like a number
SortNeverRaises(s) == FALSE

\* sorted(..., key=lambda f: f.get('ParentId', 0)) compares the keys with <:
\* of two or more rows, one with the key None, it raises TypeError
SortRaises(s) == Len(s) >= 2 /\ \E i \in 1..Len(s) : s[i].ParentId = NullId

\* x put into the sorted list s behind every row whose ParentId is not larger
InsertByParentId(s, x) ==
    LET k == Cardinality({i \in 1..Len(s) : s[i].ParentId <= x.ParentId})
    IN SubSeq(s, 1, k) \o <<x>> \o SubSeq(s, k + 1, Len(s))

\* sorted(normalized_folders, key=lambda f: f.get('ParentId', 0)), a stable sort
RECURSIVE SortByParentId(_)
SortByParentId(s) ==
    IF s = <<>> THEN <<>>
    ELSE InsertByParentId(SortByParentId(SubSeq(s, 1, Len(s) - 1)), s[Len(s)])

\* sorted(tracks, key=lambda t: getattr(t, "Sequence", t.get("Sequence", 0))):
\* the default t.get(...) is evaluated for every record, an object without
\* get() raises, and the except clause then keeps the list as it was
RECURSIVE SortBySequence(_)
SortBySequence(s) ==
    IF s = <<>> THEN <<>>
    ELSE LET rest == SortBySequence(SubSeq(s, 1, Len(s) - 1))
             x == s[Len(s)]
             key(t) == IF "Sequence" \in DOMAIN t.f THEN t.f["Sequence"].v ELSE 0
             k == Cardinality({i \in 1..Len(rest) : key(rest[i]) <= key(x)})
         IN SubSeq(rest, 1, k) \o <<x>> \o SubSeq(rest, k + 1, Len(rest))

SortedTracks(tracks) ==
    IF \E i \in 1..Len(tracks) : tracks[i].style # "dict" THEN tracks
    ELSE SortBySequence(tracks)

\* ---------------------------------------------------------------- the call
\* def export_rekordbox_db_to_xml(db_path, output_path, verbose=False, db_key=None)
ExportParams == <<"db_path", "output_path", "verbose", "db_key">>

\* the positional arguments of the call in cli.export
CliCallArgs == <<"db_path_str", "output", "db_key", "verbose", "roman", "bpm",
                 "orderby", "parsed_playlists">>

\* Python's binding of a call: too many positional arguments, or a keyword
\* that names no parameter, raise TypeError before the body runs
CallAccepted(params, nargs, kwargs) ==
    /\ nargs <= Len(params)
    /\ \A kw \in kwargs : \E i \in (nargs + 1)..Len(params) : params[i] = kw

\* cli.export, lines 79-85: the specs of the --playlists options, which are
\* comma-separated lists; an empty item is dropped, no option gives None
RECURSIVE FlattenSpecs(_)
FlattenSpecs(options) ==
    IF options = <<>> THEN <<>>
    ELSE SelectSeq(Head(options), LAMBDA t : t.kind # "empty") \o FlattenSpecs(Tail(options))

ParsePlaylists(options) == IF options = <<>> THEN <<>> ELSE FlattenSpecs(options)

\* -------------------------------------------------------- playlist scoping
\* A playlist spec is an id, a '/'-joined path of names, or an empty item.
IdSpec(n) == [kind |-> "id", id |-> n]
PathSpec(names) == [kind |-> "path", path |-> names]
EmptySpec == [kind |-> "empty"]

RowIds(table) == {r.Id : r \in table}

RowOf(table, id) == CHOOSE r \in table : r.Id = id

\* the names from the root down to the row
RECURSIVE FullPath(_, _)
FullPath(table, id) ==
    IF id \notin RowIds(table) THEN <<>>
    ELSE FullPath(table, RowOf(table, id).ParentId) \o <<RowOf(table, id).Name>>

\* the ids a spec matches: by id when numeric, else by full path
ResolveSpec(table, spec) ==
    CASE spec.kind = "id" -> {i \in RowIds(table) : i = spec.id}
      [] spec.kind = "path" -> {i \in RowIds(table) : FullPath(table, i) = spec.path}
      [] OTHER -> {}

UnresolvedSpecs(table, specs) ==
    {specs[i] : i \in {j \in 1..Len(specs) : ResolveSpec(table, specs[j]) = {}}}

RECURSIVE Ancestors(_, _)
Ancestors(table, id) ==
    IF id \notin RowIds(table) \/ RowOf(table, id).ParentId \notin RowIds(table) THEN {}
    ELSE {RowOf(table, id).ParentId} \cup Ancestors(table, RowOf(table, id).ParentId)

Descendants(table, id) == {i \in RowIds(table) : id \in Ancestors(table, i)}

\* the matched ids with all their descendants and all their ancestors
IncludedIds(table, specs) ==
    LET targets == UNION {ResolveSpec(table, specs[i]) : i \in 1..Len(specs)}
    IN targets \cup UNION {Ancestors(table, t) \cup Descendants(table, t) : t \in targets}

\* ------------------------------------------------------------------- state
VARIABLES
    db,            \* the library: tracks, playlists (djmdPlaylist), songs (djmdSongPlaylist)
    pc,            \* where the run is
    request,       \* how the export was asked for
    dbOpen,        \* the database connection is open
    xmlTracks,     \* COLLECTION of the document being built
    xmlNodes,      \* the NODEs below the root playlist folder
    folder_map,    \* folder id -> index of its NODE, 0 the root
    folderRows,    \* normalized_folders, sorted by ParentId
    playlistRows,  \* normalized_playlists
    ti,            \* index of the next item of the running loop
    added_tracks,
    failed_tracks,
    outFile,       \* "absent", "old" (there before the run) or "new"
    written,       \* the documents saved to output_path, in order
    outcome,       \* how the run ended
    exitCode,      \* exit code of the command, -1 while there is none
    ret,           \* what a direct call of _add_track_to_xml returned
    resolved,      \* what a direct call of _get_track_file_path gave
    closeError,    \* db.close() raised inside exporter.close()
    rows,          \* the rows list-playlists has put out
    data,          \* PlaylistModel._data, the rows of the table of the GUI
    edit           \* the last call of PlaylistModel.setData

vars == <<db, pc, request, dbOpen, xmlTracks, xmlNodes, folder_map, folderRows,
          playlistRows, ti, added_tracks, failed_tracks, outFile, written, outcome,
          exitCode, ret, resolved, closeError, rows, data, edit>>

NoRequest == [via |-> "none", force |-> FALSE, orderby |-> "default",
              playlists |-> <<>>, kwargs |-> {}]

NoOutcome == [kind |-> "none", names |-> {}]

Failure(kind) == [kind |-> kind, names |-> {}]

RootMap == [x \in {0} |-> 0]

\* no call of setData has been made
NoEdit == [row |-> 0, col |-> "none", role |-> "none", value |-> "none", result |-> FALSE]

Idle ==
    /\ request = NoRequest
    /\ dbOpen = FALSE
    /\ xmlTracks = <<>>
    /\ xmlNodes = <<>>
    /\ folder_map = RootMap
    /\ folderRows = <<>>
    /\ playlistRows = <<>>
    /\ ti = 1
    /\ added_tracks = 0
    /\ failed_tracks = 0
    /\ written = <<>>
    /\ outcome = NoOutcome
    /\ exitCode = -1
    /\ ret = "none"
    /\ resolved = "none"
    /\ closeError = FALSE
    /\ rows = <<>>
    /\ data = <<>>
    /\ edit = NoEdit

Init ==
    /\ db \in [tracks : TrackLists, playlists : {LibraryPlaylists}, songs : SongTables]
    /\ outFile \in {"absent", "old"}
    /\ pc = "idle"
    /\ Idle

\* the command lines: --force, --orderby and the --playlists options
CommandLines == {
    [force |-> FALSE, orderby |-> "default", options |-> <<>>],
    [force |-> TRUE, orderby |-> "default", options |-> <<>>],
    [force |-> TRUE, orderby |-> "bpm", options |-> <<>>],
    [force |-> FALSE, orderby |-> "default", options |-> << <<IdSpec(3)>> >>],
    [force |-> TRUE, orderby |-> "default",
     options |-> << <<PathSpec(<<"A", "B", "P">>)>> >>],
    [force |-> TRUE, orderby |-> "default",
     options |-> << <<PathSpec(<<"Nonexistent">>)>> >>],
    [force |-> FALSE, orderby |-> "default",
     options |-> << <<IdSpec(4), EmptySpec>>, <<IdSpec(9)>> >>] }

\* the keyword arguments of the direct calls
KeywordSets == {{}, {"orderby"}, {"roman"}, {"bpm"}}

\* a variant of RefusesOutput: the output file is not looked at
RefusesNothing(exists, force) == FALSE

\* cli.export, line 75: output.exists() and not force
RefusesOutput(exists, force) == exists /\ ~force

\* cli.export: the command `export`
CliExport ==
    /\ UNCHANGED <<ret, resolved, closeError, rows, data, edit>>
    /\ pc = "idle"
    /\ \E cmd \in CommandLines :
        /\ request' = [via |-> "cli", force |-> cmd.force, orderby |-> cmd.orderby,
                       playlists |-> ParsePlaylists(cmd.options), kwargs |-> {}]
        /\ IF RefusesOutput(outFile # "absent", cmd.force)
           THEN /\ pc' = "done"
                /\ outcome' = Failure("OutputExists")
                /\ exitCode' = 1
           ELSE IF ~CallAccepted(ExportParams, Len(CliCallArgs), {})
           THEN /\ pc' = "done"
                /\ outcome' = Failure("TypeError")
                /\ exitCode' = 1
           ELSE /\ pc' = "connect"
                /\ UNCHANGED <<outcome, exitCode>>
    /\ UNCHANGED <<db, dbOpen, xmlTracks, xmlNodes, folder_map, folderRows, playlistRows,
                   ti, added_tracks, failed_tracks, outFile, written>>

\* a direct call export_rekordbox_db_to_xml(db_path, output_path, **kwargs),
\* as the tests and __main__ make it
ApiExport ==
    /\ UNCHANGED <<ret, resolved, closeError, rows, data, edit>>
    /\ pc = "idle"
    /\ \E kwargs \in KeywordSets :
        /\ request' = [via |-> "api", force |-> TRUE,
                       orderby |-> IF "orderby" \in kwargs THEN "bpm" ELSE "default",
                       playlists |-> <<>>, kwargs |-> kwargs]
        /\ IF ~CallAccepted(ExportParams, 2, kwargs)
           THEN /\ pc' = "done"
                /\ outcome' = Failure("TypeError")
           ELSE /\ pc' = "connect"
                /\ UNCHANGED outcome
    /\ UNCHANGED <<db, dbOpen, xmlTracks, xmlNodes, folder_map, folderRows, playlistRows,
                   ti, added_tracks, failed_tracks, outFile, written, exitCode>>

\* the exit code the command gives for an outcome; -1 for a direct call
ExitCodeOf(kind) ==
    IF request.via = "cli" THEN (IF kind = "ok" THEN 0 ELSE 1) ELSE -1

\* RekordboxXMLExporter.__init__: the database is opened
Connect ==
    /\ UNCHANGED <<ret, resolved, closeError, rows, data, edit>>
    /\ pc = "connect"
    /\ dbOpen' = TRUE
    /\ pc' = "tracks"
    /\ ti' = 1
    /\ UNCHANGED <<db, request, xmlTracks, xmlNodes, folder_map, folderRows, playlistRows,
                   added_tracks, failed_tracks, outFile, written, outcome, exitCode>>

\* RekordboxXMLExporter.__init__: the database cannot be opened and the
\* constructor raises; there is no exporter to close
ConnectFails ==
    /\ UNCHANGED <<ret, resolved, closeError, rows, data, edit>>
    /\ pc = "connect"
    /\ pc' = "done"
    /\ outcome' = Failure("ConnectError")
    /\ exitCode' = ExitCodeOf("ConnectError")
    /\ UNCHANGED <<db, request, dbOpen, xmlTracks, xmlNodes, folder_map, folderRows,
                   playlistRows, ti, added_tracks, failed_tracks, outFile, written>>

\* a variant of SkipsTrack: the loop leaves no track out
SkipsNoTrack(location) == FALSE

\* a variant of Finally: there is no finally clause, and the function is
\* left at once
NoFinally == "done"

\* export_rekordbox_db_to_xml, lines 1424-1427: however generate_xml ends,
\* by returning or by raising, the finally clause runs next
Finally == "close"

\* _add_tracks_to_collection, line 283: a track without location is left out
SkipsTrack(location) == location = <<>>

\* _add_tracks_to_collection, lines 281-293: one round of the loop
AddTrackStep ==
    /\ UNCHANGED <<ret, resolved, closeError, rows, data, edit>>
    /\ pc = "tracks"
    /\ ti <= Len(db.tracks)
    /\ LET track == SortedTracks(db.tracks)[ti]
           loc == GetTrackFilePath(track)
           r == AddTrackToXml(xmlTracks, track)
       IN IF loc.exc
          THEN /\ pc' = Finally
               /\ outcome' = Failure("TrackError")
               /\ UNCHANGED <<xmlTracks, ti, added_tracks, failed_tracks>>
          ELSE IF SkipsTrack(loc.v)
          THEN /\ ti' = ti + 1
               /\ UNCHANGED <<pc, outcome, xmlTracks, added_tracks, failed_tracks>>
          ELSE /\ ti' = ti + 1
               /\ xmlTracks' = r.coll
               /\ added_tracks' = IF r.ret THEN added_tracks + 1 ELSE added_tracks
               /\ failed_tracks' = IF r.ret THEN failed_tracks ELSE failed_tracks + 1
               /\ UNCHANGED <<pc, outcome>>
    /\ UNCHANGED <<db, request, dbOpen, xmlNodes, folder_map, folderRows, playlistRows,
                   outFile, written, exitCode>>

\* _add_playlists, lines 910-1122: the two queries and the normalization
BeginPlaylists ==
    /\ UNCHANGED <<ret, resolved, closeError, rows, data, edit>>
    /\ pc = "tracks"
    /\ ti > Len(db.tracks)
    /\ \E fq \in OrderedBySeq(PlaylistRows(db.playlists, 1)),
          pq \in OrderedBySeq(PlaylistRows(db.playlists, 0)) :
        IF SortRaises(fq)
        THEN /\ pc' = Finally
             /\ outcome' = Failure("PlaylistError")
             /\ UNCHANGED <<folderRows, playlistRows, ti>>
        ELSE /\ folderRows' = SortByParentId(fq)
             /\ playlistRows' = pq
             /\ pc' = "folders"
             /\ ti' = 1
             /\ UNCHANGED outcome
    /\ UNCHANGED <<db, request, dbOpen, xmlTracks, xmlNodes, folder_map, added_tracks,
                   failed_tracks, outFile, written, exitCode>>

\* folder_map.get(parent_id), the root when the parent is not found
ParentNode(map, parent_id) == IF parent_id \in DOMAIN map THEN map[parent_id] ELSE 0

\* _add_playlists, lines 1128-1148: one folder
AddFolderStep ==
    /\ UNCHANGED <<ret, resolved, closeError, rows, data, edit>>
    /\ pc = "folders"
    /\ ti <= Len(folderRows)
    /\ LET folder == folderRows[ti]
       IN /\ xmlNodes' = Append(xmlNodes,
                [Type |-> "folder", Name |-> folder.Name, row |-> folder.Id,
                 parent |-> ParentNode(folder_map, folder.ParentId), keys |-> <<>>])
          /\ folder_map' = [x \in DOMAIN folder_map \cup {folder.Id} |->
                               IF x = folder.Id THEN Len(xmlNodes) + 1 ELSE folder_map[x]]
    /\ ti' = ti + 1
    /\ UNCHANGED <<db, pc, request, dbOpen, xmlTracks, folderRows, playlistRows,
                   added_tracks, failed_tracks, outFile, written, outcome, exitCode>>

FoldersDone ==
    /\ UNCHANGED <<ret, resolved, closeError, rows, data, edit>>
    /\ pc = "folders"
    /\ ti > Len(folderRows)
    /\ pc' = "playlists"
    /\ ti' = 1
    /\ UNCHANGED <<db, request, dbOpen, xmlTracks, xmlNodes, folder_map, folderRows,
                   playlistRows, added_tracks, failed_tracks, outFile, written, outcome,
                   exitCode>>

\* _add_tracks_to_playlist, lines 1259-1265: a key for every entry whose
\* track id is true, str(track_id)
RECURSIVE PlaylistKeys(_)
PlaylistKeys(entries) ==
    IF entries = <<>> THEN <<>>
    ELSE IF Truthy(Head(entries).ContentID)
         THEN <<PyStr(Head(entries).ContentID)>> \o PlaylistKeys(Tail(entries))
         ELSE PlaylistKeys(Tail(entries))

\* _add_playlists, lines 1151-1173, with _add_tracks_to_playlist: one playlist
AddPlaylistStep ==
    /\ UNCHANGED <<ret, resolved, closeError, rows, data, edit>>
    /\ pc = "playlists"
    /\ ti <= Len(playlistRows)
    /\ LET playlist == playlistRows[ti]
       IN \E entries \in OrderedByTrackNo(SongsOfPlaylist(db.songs, playlist.Id)) :
            xmlNodes' = Append(xmlNodes,
                [Type |-> "playlist", Name |-> playlist.Name, row |-> playlist.Id,
                 parent |-> ParentNode(folder_map, playlist.ParentId),
                 keys |-> PlaylistKeys(entries)])
    /\ ti' = ti + 1
    /\ UNCHANGED <<db, pc, request, dbOpen, xmlTracks, folder_map, folderRows,
                   playlistRows, added_tracks, failed_tracks, outFile, written, outcome,
                   exitCode>>

PlaylistsDone ==
    /\ UNCHANGED <<ret, resolved, closeError, rows, data, edit>>
    /\ pc = "playlists"
    /\ ti > Len(playlistRows)
    /\ pc' = "save"
    /\ UNCHANGED <<db, request, dbOpen, xmlTracks, xmlNodes, folder_map, folderRows,
                   playlistRows, ti, added_tracks, failed_tracks, outFile, written,
                   outcome, exitCode>>

\* a variant of Save: the file is written when the COLLECTION stage ends,
\* before any playlist is added
SaveBeforePlaylists ==
    /\ UNCHANGED <<ret, resolved, closeError, rows, data, edit>>
    /\ pc = "folders"
    /\ ti = 1
    /\ written' = Append(written, [tracks |-> xmlTracks, nodes |-> xmlNodes])
    /\ outFile' = "new"
    /\ pc' = Finally
    /\ UNCHANGED <<db, request, dbOpen, xmlTracks, xmlNodes, folder_map, folderRows,
                   playlistRows, ti, added_tracks, failed_tracks, outcome, exitCode>>

\* generate_xml, line 229: xml.save(output_path)
Save ==
    /\ UNCHANGED <<ret, resolved, closeError, rows, data, edit>>
    /\ pc = "save"
    /\ written' = Append(written, [tracks |-> xmlTracks, nodes |-> xmlNodes])
    /\ outFile' = "new"
    /\ pc' = Finally
    /\ UNCHANGED <<db, request, dbOpen, xmlTracks, xmlNodes, folder_map, folderRows,
                   playlistRows, ti, added_tracks, failed_tracks, outcome, exitCode>>

\* generate_xml, line 229: the file cannot be written and save raises
SaveFails ==
    /\ UNCHANGED <<ret, resolved, closeError, rows, data, edit>>
    /\ pc = "save"
    /\ outcome' = Failure("SaveError")
    /\ pc' = Finally
    /\ UNCHANGED <<db, request, dbOpen, xmlTracks, xmlNodes, folder_map, folderRows,
                   playlistRows, ti, added_tracks, failed_tracks, outFile, written,
                   exitCode>>

\* the outcome of generate_xml: the exception that escaped it, or success
RunOutcome == IF outcome = NoOutcome THEN [kind |-> "ok", names |-> {}] ELSE outcome

\* a variant of CloseResult: an exception of db.close() leaves the finally
\* clause and takes the place of the outcome of the run
CloseResultRaising(run, close_raised) ==
    IF close_raised THEN Failure("CloseError") ELSE run

\* close, lines 1405-1409: an exception of db.close() is caught and passed
\* over, so the function ends as generate_xml ended
CloseResult(run, close_raised) == run

\* export_rekordbox_db_to_xml, lines 1426-1427: finally exporter.close();
\* the connection is given up whether db.close() raises or not
Close ==
    /\ UNCHANGED <<ret, resolved, rows, data, edit>>
    /\ pc = "close"
    /\ dbOpen' = FALSE
    /\ pc' = "done"
    /\ \E close_raised \in BOOLEAN :
        /\ closeError' = close_raised
        /\ outcome' = CloseResult(RunOutcome, close_raised)
        /\ exitCode' = ExitCodeOf(CloseResult(RunOutcome, close_raised).kind)
    /\ UNCHANGED <<db, request, xmlTracks, xmlNodes, folder_map, folderRows, playlistRows,
                   ti, added_tracks, failed_tracks, outFile, written>>

Next ==
    \/ CliExport
    \/ ApiExport
    \/ Connect
    \/ ConnectFails
    \/ AddTrackStep
    \/ BeginPlaylists
    \/ AddFolderStep
    \/ FoldersDone
    \/ AddPlaylistStep
    \/ PlaylistsDone
    \/ Save
    \/ SaveFails
    \/ Close

Spec == Init /\ [][Next]_vars

\* ------------------------------------------------- one record, projected
\* the raw BPM values a record is projected with
BpmInputs ==
    {IntV(v) : v \in MinBpmRaw..MaxBpmRaw}
    \cup {IntV(0), NoneV, StrV(<<"1", "2", "3", "4", "5">>), StrV(<<>>),
          StrV(<<"i", "n", "v">>), StrV(<<"1", "2", "a">>)}

\* a record with that BPM, as an object or as a mapping
BpmTrack(style, bpm) ==
    [style |-> style,
     f |-> [ID |-> IntV(1), FolderPath |-> StrV(PathA), FileNameL |-> StrV(NameA),
            BPM |-> bpm]]

\* what a field of a record can hold: nothing (the field is missing), None,
\* or one of the values
Missing == [k |-> "missing"]
FieldValues(values) == {Missing, NoneV} \cup {StrV(v) : v \in values}

\* the record with the fields of all that are not missing
RecordOf(style, all) ==
    [style |-> style, f |-> [x \in {y \in DOMAIN all : all[y] # Missing} |-> all[x]]]

\* a record with several source fields for AverageBpm and for Artist; with
\* a Location that cannot be resolved its projection takes the fallback path
AliasTracks ==
    {RecordOf(st, [ID |-> IntV(1), Location |-> loc,
                   FolderPath |-> IF loc = Missing THEN StrV(PathA) ELSE Missing,
                   FileNameL |-> IF loc = Missing THEN StrV(NameA) ELSE Missing,
                   BPM |-> bpm, AverageBpm |-> avg, Bpm |-> alt,
                   artist |-> a0, Artist |-> a1, ArtistName |-> a2]) :
        st \in {"attr", "dict"}, loc \in {Missing, IntV(7)},
        bpm \in {Missing, IntV(12800)}, avg \in {Missing, NoneV, IntV(128)},
        alt \in {Missing, IntV(9000)},
        a0 \in {Missing, StrV(<<"z">>)}, a1 \in FieldValues({<<"X">>}),
        a2 \in FieldValues({<<"Y">>})}

InitProj ==
    /\ db \in [tracks : {<<BpmTrack(st, b)>> : st \in {"attr", "dict"}, b \in BpmInputs},
               playlists : {{}}, songs : {{}}]
    /\ outFile = "absent"
    /\ pc = "proj"
    /\ Idle

\* _add_track_to_xml called on a new document, as
\* test_bpm_conversion_edge_cases calls it
ProjectStep ==
    /\ pc = "proj"
    /\ LET r == AddTrackToXml(xmlTracks, db.tracks[1])
       IN /\ xmlTracks' = r.coll
          /\ ret' = IF r.ret THEN "True" ELSE "False"
    /\ pc' = "projected"
    /\ UNCHANGED <<db, request, dbOpen, xmlNodes, folder_map, folderRows, playlistRows,
                   ti, added_tracks, failed_tracks, outFile, written, outcome, exitCode,
                   resolved, closeError, rows, data, edit>>

NextProj == ProjectStep

SpecProj == InitProj /\ [][NextProj]_vars

\* the direct call on a record with several source fields for one attribute
InitAlias ==
    /\ db \in [tracks : {<<t>> : t \in AliasTracks}, playlists : {{}}, songs : {{}}]
    /\ outFile = "absent"
    /\ pc = "proj"
    /\ Idle

NextAlias == ProjectStep

SpecAlias == InitAlias /\ [][NextAlias]_vars

\* ------------------------------------------------------ the playlist walk
\* a ParentID that is the ID of no row
DanglingId == 9

RowNames == <<"A", "B", "C", "D", "E", "F">>

\* djmdPlaylist with MaxRows rows: each a folder or a playlist, its parent
\* the root, a row, no row or NULL, the Seq ascending or descending in the ID
PlaylistTables ==
    {{[Id |-> i, Seq |-> IF up THEN i ELSE MaxRows + 1 - i, Name |-> RowNames[i],
       ParentId |-> par[i], Attribute |-> att[i]] : i \in 1..MaxRows} :
        up \in BOOLEAN,
        att \in [1..MaxRows -> {0, 1}],
        par \in [1..MaxRows -> {0, DanglingId, NullId} \cup 1..MaxRows]}

\* generate_xml on a library without tracks, when _add_playlists is called
InitTree ==
    /\ db \in [tracks : {<<>>}, playlists : PlaylistTables, songs : {{}}]
    /\ outFile = "absent"
    /\ pc = "tracks"
    /\ request = [via |-> "api", force |-> TRUE, orderby |-> "default",
                  playlists |-> <<>>, kwargs |-> {}]
    /\ dbOpen = TRUE
    /\ xmlTracks = <<>>
    /\ xmlNodes = <<>>
    /\ folder_map = RootMap
    /\ folderRows = <<>>
    /\ playlistRows = <<>>
    /\ ti = 1
    /\ added_tracks = 0
    /\ failed_tracks = 0
    /\ written = <<>>
    /\ outcome = NoOutcome
    /\ exitCode = -1
    /\ ret = "none"
    /\ resolved = "none"
    /\ closeError = FALSE
    /\ rows = <<>>
    /\ data = <<>>
    /\ edit = NoEdit

NextTree ==
    \/ BeginPlaylists
    \/ AddFolderStep
    \/ FoldersDone
    \/ AddPlaylistStep
    \/ PlaylistsDone

SpecTree == InitTree /\ [][NextTree]_vars

\* -------------------------------------------------- the COLLECTION stage
\* track records that share ids and paths, with a BPM that is a number or not
AddRecords ==
    {AttrTrack([ID |-> IntV(i), FolderPath |-> StrV(fp), FileNameL |-> StrV(NameA),
                BPM |-> bpm]) :
        i \in {1, 2}, fp \in {PathA, PathR},
        bpm \in {IntV(12800), StrV(<<"i", "n", "v">>)}}

\* generate_xml when _add_tracks_to_collection is called, on a library of
\* such records
InitAdd ==
    /\ db \in [tracks : [1..(MaxTracks + 1) -> AddRecords], playlists : {{}}, songs : {{}}]
    /\ outFile = "absent"
    /\ pc = "tracks"
    /\ request = [via |-> "api", force |-> TRUE, orderby |-> "default",
                  playlists |-> <<>>, kwargs |-> {}]
    /\ dbOpen = TRUE
    /\ xmlTracks = <<>>
    /\ xmlNodes = <<>>
    /\ folder_map = RootMap
    /\ folderRows = <<>>
    /\ playlistRows = <<>>
    /\ ti = 1
    /\ added_tracks = 0
    /\ failed_tracks = 0
    /\ written = <<>>
    /\ outcome = NoOutcome
    /\ exitCode = -1
    /\ ret = "none"
    /\ resolved = "none"
    /\ closeError = FALSE
    /\ rows = <<>>
    /\ data = <<>>
    /\ edit = NoEdit

NextAdd == AddTrackStep

SpecAdd == InitAdd /\ [][NextAdd]_vars

\* ---------------------------------------------------------------------
\* list-playlists (cli.py)

\* the place of a name in the order Python's < gives strings
NameRank(n) == CHOOSE k \in 1..Len(RowNames) : RowNames[k] = n

\* x put into the sorted list s behind every row whose Name is not larger
InsertByName(s, x) ==
    LET k == Cardinality({i \in 1..Len(s) : NameRank(s[i].Name) <= NameRank(x.Name)})
    IN SubSeq(s, 1, k) \o <<x>> \o SubSeq(s, k + 1, Len(s))

\* a variant of SortedByName: the rows as parent_map holds them
NotSorted(s) == s

\* sorted(parent_map.get(pid, []), key=lambda x: x.Name): a stable sort
RECURSIVE SortedByName(_)
SortedByName(s) ==
    IF s = <<>> THEN <<>>
    ELSE InsertByName(SortedByName(SubSeq(s, 1, Len(s) - 1)), s[Len(s)])

\* parent_map.get(pid, []): the rows with this ParentID, in the order of pls
ParentMap(pls, pid) == SelectSeq(pls, LAMBDA pl : pl.ParentId = pid)

\* "  " * depth
RECURSIVE Indent(_)
Indent(depth) == IF depth = 0 THEN "" ELSE "  " \o Indent(depth - 1)

\* the dict traverse appends for the row pl
ListedRow(pl, depth) ==
    [id |-> pl.Id, name |-> Indent(depth) \o pl.Name,
     is_folder |-> pl.Attribute = 1, parent_id |-> pl.ParentId]

\* traverse(pid, depth), and its loop over the sorted children of pid
RECURSIVE Traverse(_, _, _)
RECURSIVE TraverseEach(_, _, _)
Traverse(pls, pid, depth) == TraverseEach(pls, SortedByName(ParentMap(pls, pid)), depth)

TraverseEach(pls, kids, depth) ==
    IF kids = <<>> THEN <<>>
    ELSE <<ListedRow(Head(kids), depth)>>
         \o Traverse(pls, Head(kids).Id, depth + 1)
         \o TraverseEach(pls, Tail(kids), depth)

\* [pid for pid in parent_map.keys() if pid not in id_map]: the keys of a
\* dict come in the order of their first insertion
RootParents(pls) ==
    LET first == SelectSeq([i \in 1..Len(pls) |-> i],
                     LAMBDA i : /\ \A j \in 1..(i - 1) : pls[j].ParentId # pls[i].ParentId
                                /\ \A j \in 1..Len(pls) : pls[j].Id # pls[i].ParentId)
    IN [k \in 1..Len(first) |-> pls[first[k]].ParentId]

\* for rp in root_parents: traverse(rp)
RECURSIVE TraverseRoots(_, _)
TraverseRoots(pls, rps) ==
    IF rps = <<>> THEN <<>>
    ELSE Traverse(pls, Head(rps), 0) \o TraverseRoots(pls, Tail(rps))

\* the djmdPlaylist tables of the listing: MaxRows rows, each under the
\* root, under an id no row has, or under a row; names ascending,
\* descending or all the same
ListTables ==
    {{[Id |-> i, Seq |-> i,
       Name |-> RowNames[CASE ord = "up" -> i [] ord = "down" -> MaxRows + 1 - i
                              [] OTHER -> 1],
       ParentId |-> par[i], Attribute |-> i % 2] : i \in 1..MaxRows} :
        ord \in {"up", "down", "same"},
        par \in [1..MaxRows -> {0, DanglingId} \cup 1..MaxRows]}

\* the list-playlists command on a database
InitList ==
    /\ db \in [tracks : {<<>>}, playlists : ListTables, songs : {{}}]
    /\ outFile = "absent"
    /\ pc = "list"
    /\ request = [via |-> "cli", force |-> FALSE, orderby |-> "default",
                  playlists |-> <<>>, kwargs |-> {}]
    /\ dbOpen = TRUE
    /\ xmlTracks = <<>>
    /\ xmlNodes = <<>>
    /\ folder_map = RootMap
    /\ folderRows = <<>>
    /\ playlistRows = <<>>
    /\ ti = 1
    /\ added_tracks = 0
    /\ failed_tracks = 0
    /\ written = <<>>
    /\ outcome = NoOutcome
    /\ exitCode = -1
    /\ ret = "none"
    /\ resolved = "none"
    /\ closeError = FALSE
    /\ rows = <<>>
    /\ data = <<>>
    /\ edit = NoEdit

\* list_playlists: db.get_playlist().all() gives the rows in an order the
\* query does not fix; the rows list is filled from it
ListPlaylists ==
    /\ pc = "list"
    /\ \E pls \in InAnyOrder(db.playlists) :
           rows' = TraverseRoots(pls, RootParents(pls))
    /\ pc' = "listed"
    /\ UNCHANGED <<db, request, dbOpen, xmlTracks, xmlNodes, folder_map, folderRows,
                   playlistRows, ti, added_tracks, failed_tracks, outFile, written,
                   outcome, exitCode, ret, resolved, closeError, data, edit>>

NextList == ListPlaylists

SpecList == InitList /\ [][NextList]_vars

\* ---------------------------------------------------------------------
\* PlaylistModel of the GUI (rkbdb2xml_gui/main.py)

\* a row of _data as _flatten_playlists_recursive makes it, a list indexed
\* by the column constants
ItemData(export, name, options, is_folder, id, level) ==
    [EXPORT_COL |-> export, NAME_COL |-> Indent(level) \o name,
     SORT_ORDER_COL |-> IF is_folder THEN "N/A" ELSE "Default",
     ADD_BPM_COL |-> options, ROMANIZE_TEXT_COL |-> options,
     IS_FOLDER_COL |-> is_folder, ID_COL |-> id, LEVEL_COL |-> level]

\* the tables the model can hold: the rows come out of a pre-order walk,
\* so the first row has level 0, a level rises by one at most and only
\* behind a folder; every combination of Export states can be made by
\* checking rows from the top down, and the options of a playlist by
\* checking them
GuiTables ==
    {[i \in 1..MaxRows |->
          ItemData(ex[i], RowNames[i], opt /\ ~fol[i], fol[i], i, lv[i])] :
        <<lv, fol, ex, opt>> \in
            {t \in [1..MaxRows -> 0..(MaxRows - 1)] \X [1..MaxRows -> BOOLEAN]
                   \X [1..MaxRows -> BOOLEAN] \X BOOLEAN :
                /\ t[1][1] = 0
                /\ \A i \in 1..(MaxRows - 1) :
                       /\ t[1][i + 1] <= t[1][i] + 1
                       /\ t[1][i + 1] = t[1][i] + 1 => t[2][i]}}

\* self._data[i][self.EXPORT_COL] = is_checked
SetExport(d, i, is_checked) == [d EXCEPT ![i].EXPORT_COL = is_checked]

\* a variant of PropagateFolderCheckState: the rows below are left alone
NoPropagation(d, folder_row_index, is_checked) == d

\* _propagate_folder_check_state, and its loop from row i on: the loop
\* ends at the first row whose level is not greater than the folder's; a
\* row whose Export differs is set, and when it is a folder the function
\* is called for it before the loop goes on
RECURSIVE PropagateFolderCheckState(_, _, _)
RECURSIVE PropagateLoop(_, _, _, _)
PropagateFolderCheckState(d, folder_row_index, is_checked) ==
    PropagateLoop(d, folder_row_index + 1, d[folder_row_index].LEVEL_COL, is_checked)

PropagateLoop(d, i, folder_level, is_checked) ==
    IF i > Len(d) THEN d
    ELSE IF d[i].LEVEL_COL <= folder_level THEN d
    ELSE IF d[i].EXPORT_COL # is_checked
         THEN PropagateLoop(
                  IF d[i].IS_FOLDER_COL
                  THEN PropagateFolderCheckState(SetExport(d, i, is_checked), i, is_checked)
                  ELSE SetExport(d, i, is_checked),
                  i + 1, folder_level, is_checked)
         ELSE PropagateLoop(d, i + 1, folder_level, is_checked)

\* value == Qt.Checked: true for Qt.Checked, false for Qt.Unchecked; for
\* the plain number 2 a view can hand over, what the comparison gives
\* depends on the enum of the installed PySide6
EqualsChecked(value) ==
    CASE value = "Qt.Checked" -> {TRUE}
      [] value = "2" -> BOOLEAN
      [] OTHER -> {FALSE}

\* the branch of setData for Qt.CheckStateRole on a checkbox column
SetChecked(d, row, col, new_value) ==
    IF d[row][col] # new_value
    THEN IF col = "EXPORT_COL" /\ d[row].IS_FOLDER_COL
         THEN PropagateFolderCheckState([d EXCEPT ![row][col] = new_value], row, new_value)
         ELSE [d EXCEPT ![row][col] = new_value]
    ELSE d

\* the table of the GUI after the playlists were loaded and boxes checked
InitGui ==
    /\ db = [tracks |-> <<>>, playlists |-> {}, songs |-> {}]
    /\ outFile = "absent"
    /\ pc = "gui"
    /\ request = [via |-> "gui", force |-> FALSE, orderby |-> "default",
                  playlists |-> <<>>, kwargs |-> {}]
    /\ dbOpen = FALSE
    /\ xmlTracks = <<>>
    /\ xmlNodes = <<>>
    /\ folder_map = RootMap
    /\ folderRows = <<>>
    /\ playlistRows = <<>>
    /\ ti = 1
    /\ added_tracks = 0
    /\ failed_tracks = 0
    /\ written = <<>>
    /\ outcome = NoOutcome
    /\ exitCode = -1
    /\ ret = "none"
    /\ resolved = "none"
    /\ closeError = FALSE
    /\ rows = <<>>
    /\ data \in GuiTables
    /\ edit = NoEdit

\* PlaylistModel.setData(index, value, role); row 0 stands for an index
\* that is not valid
SetData ==
    /\ pc = "gui"
    /\ \E row \in 0..Len(data),
          col \in {"EXPORT_COL", "NAME_COL", "SORT_ORDER_COL", "ADD_BPM_COL"},
          role \in {"Qt.CheckStateRole", "Qt.EditRole"},
          value \in {"Qt.Checked", "Qt.Unchecked", "2"} :
           \/ /\ row = 0
              /\ data' = data
              /\ edit' = [row |-> row, col |-> col, role |-> role, value |-> value,
                          result |-> FALSE]
           \/ /\ row # 0
              /\ role = "Qt.CheckStateRole"
              /\ col \in {"EXPORT_COL", "ADD_BPM_COL", "ROMANIZE_TEXT_COL"}
              /\ \E new_value \in EqualsChecked(value) :
                     data' = SetChecked(data, row, col, new_value)
              /\ edit' = [row |-> row, col |-> col, role |-> role, value |-> value,
                          result |-> TRUE]
           \/ /\ row # 0
              /\ role = "Qt.EditRole"
              /\ col = "SORT_ORDER_COL"
              /\ data' = [data EXCEPT ![row][col] = value]
              /\ edit' = [row |-> row, col |-> col, role |-> role, value |-> value,
                          result |-> TRUE]
           \/ /\ row # 0
              /\ \/ role = "Qt.CheckStateRole"
                       /\ col \notin {"EXPORT_COL", "ADD_BPM_COL", "ROMANIZE_TEXT_COL"}
                 \/ role = "Qt.EditRole" /\ col # "SORT_ORDER_COL"
              /\ data' = data
              /\ edit' = [row |-> row, col |-> col, role |-> role, value |-> value,
                          result |-> FALSE]
    /\ pc' = "edited"
    /\ UNCHANGED <<db, request, dbOpen, xmlTracks, xmlNodes, folder_map, folderRows,
                   playlistRows, ti, added_tracks, failed_tracks, outFile, written,
                   outcome, exitCode, ret, resolved, closeError, rows>>

NextGui == SetData

SpecGui == InitGui /\ [][NextGui]_vars

\* ------------------------------------------------------------- properties
\* generate_xml has completed: the document has been saved
Exported == written # <<>>

\* the saved document
Doc == written[1]

\* the location _get_track_file_path resolves for the i-th track
ResolvedLocation(i) == GetTrackFilePath(db.tracks[i])

\* the tracks of the library a run that completes has gone through
AllTracks == 1..Len(db.tracks)

\* the TRACK entries of the collection coll with the TrackID of the i-th track
EntriesOf(coll, i) ==
    {k \in 1..Len(coll) : coll[k].attrs["TrackID"] = PyStr(db.tracks[i].f["ID"])}

\* C1: after generate_xml completes, every track reference of every playlist
\* node has a TRACK in COLLECTION with the same TrackID, also when the track
\* was listed in a playlist but left out of COLLECTION
C1_ReferentialIntegrity ==
    Exported =>
        \A n \in 1..Len(Doc.nodes) :
            \A k \in 1..Len(Doc.nodes[n].keys) :
                Doc.nodes[n].keys[k] \in XmlTrackIds(Doc.tracks)

\* C5: a track whose resolved location is empty never gets a COLLECTION
\* entry: the loop passes it by without calling _add_track_to_xml, and it
\* counts neither as added nor as failed
C5_EmptyLocationSkipped ==
    (pc = "tracks" \/ Exported) =>
        LET seen == IF pc = "tracks" THEN 1..(ti - 1) ELSE AllTracks
        IN /\ \A i \in seen :
                ResolvedLocation(i).v = <<>> => EntriesOf(xmlTracks, i) = {}
           /\ added_tracks + failed_tracks
                = Cardinality({i \in seen : ResolvedLocation(i).v # <<>>})

\* C5 happens: a saved export of a library with a track without location
\* and a track that was added
C5_Witness ==
    /\ Exported
    /\ added_tracks >= 1
    /\ \E i \in AllTracks : ResolvedLocation(i).v = <<>>

\* C6: no COLLECTION entry of a saved export has a location that starts
\* with the sentinel prefix of the internal managed-content area
C6_NoInternalContent ==
    Exported =>
        \A k \in 1..Len(Doc.tracks) :
            ~StartsWith(Doc.tracks[k].Location, InternalContentPrefix)

\* the tracks before the i-th that resolve to the location of the i-th
EarlierSame(i) ==
    {j \in 1..(i - 1) : ResolvedLocation(j) = ResolvedLocation(i)}

\* the i-th track resolves to a location, one that an earlier track has too
IsDuplicate(i) ==
    /\ ~ResolvedLocation(i).exc
    /\ ResolvedLocation(i).v # <<>>
    /\ EarlierSame(i) # {}

ListedEntries(p) == {r \in db.songs : r.PlaylistID = p /\ Truthy(r.ContentID)}

\* the keys of node are the ContentIDs of song_rows, one per row, by TrackNo
KeysFollow(node, song_rows) ==
    /\ Len(node.keys) = Cardinality(song_rows)
    /\ \A r \in song_rows :
         node.keys[Cardinality({q \in song_rows : q.TrackNo <= r.TrackNo})] = PyStr(r.ContentID)

\* C7 as stated: a playlist node has exactly one track reference per entry
\* the database returns for the playlist, in ascending TrackNo
C7_EveryEntryInOrder ==
    Exported =>
        \A n \in 1..Len(Doc.nodes) :
            Doc.nodes[n].Type = "playlist" =>
                KeysFollow(Doc.nodes[n],
                           {r \in db.songs : r.PlaylistID = Doc.nodes[n].row})

\* C7: a playlist node has exactly one track reference per entry of the
\* playlist whose track id is not empty, in ascending TrackNo; an entry
\* without track id makes no reference
C7_ListedEntriesInOrder ==
    Exported =>
        \A n \in 1..Len(Doc.nodes) :
            Doc.nodes[n].Type = "playlist" =>
                KeysFollow(Doc.nodes[n], ListedEntries(Doc.nodes[n].row))

\* C7 happens: a saved playlist with two different references and an entry
\* without track id
C7_Witness ==
    /\ Exported
    /\ \E n \in 1..Len(Doc.nodes) :
         /\ Len(Doc.nodes[n].keys) = 2
         /\ Doc.nodes[n].keys[1] # Doc.nodes[n].keys[2]
         /\ \E r \in db.songs : r.PlaylistID = Doc.nodes[n].row /\ ~Truthy(r.ContentID)

\* the record whose projection the direct call makes
Projected == db.tracks[1]

\* the raw BPM of the projected record is a whole number, given as a number
\* or in digits
WholeBpm ==
    \/ Projected.f["BPM"].k = "int"
    \/ Projected.f["BPM"].k = "str" /\ IsDigits(Projected.f["BPM"].v)

\* that number
WholeBpmValue ==
    IF Projected.f["BPM"].k = "int" THEN Projected.f["BPM"].v
    ELSE DigitsValue(Projected.f["BPM"].v)

\* the string s is the decimal number of h hundredths, with exactly two
\* digits behind the point
IsHundredths(s, h) ==
    /\ Len(s) >= 4
    /\ s[Len(s) - 2] = "."
    /\ IsDigits(SubSeq(s, 1, Len(s) - 3))
    /\ IsDigits(SubSeq(s, Len(s) - 1, Len(s)))
    /\ 100 * DigitsValue(SubSeq(s, 1, Len(s) - 3))
         + DigitsValue(SubSeq(s, Len(s) - 1, Len(s))) = h

\* C2: for a raw BPM v from 700 to 20000, the AverageBpm of the TRACK is
\* v / 100 written with two decimals, and never v or v times 100
C2_BpmIsHundredths ==
    (pc = "projected" /\ WholeBpm /\ WholeBpmValue \in MinBpmRaw..MaxBpmRaw) =>
            /\ ret = "True"
            /\ Len(xmlTracks) = 1
            /\ IsHundredths(xmlTracks[1].attrs["AverageBpm"], WholeBpmValue)
            /\ ~IsHundredths(xmlTracks[1].attrs["AverageBpm"], 100 * WholeBpmValue)
            /\ ~IsHundredths(xmlTracks[1].attrs["AverageBpm"], 100 * 100 * WholeBpmValue)

\* C2 happens: the record with raw BPM 12800 has been projected to 128.00
C2_Witness ==
    /\ pc = "projected"
    /\ Projected.f["BPM"] = IntV(12800)
    /\ Len(xmlTracks) = 1
    /\ xmlTracks[1].attrs["AverageBpm"] = <<"1", "2", "8", ".", "0", "0">>

\* the raw BPM of the projected record is a string that is no number
NonNumericBpm ==
    /\ Projected.f["BPM"].k = "str"
    /\ ~IsDigits(Projected.f["BPM"].v)

\* C3: a BPM string that is no number does not make the projection raise or
\* fail: the TRACK is added and its AverageBpm is the original string
C3_NonNumericBpmKept ==
    (pc = "projected" /\ NonNumericBpm) =>
        /\ ret = "True"
        /\ Len(xmlTracks) = 1
        /\ xmlTracks[1].attrs["AverageBpm"] = Projected.f["BPM"].v

\* C3 happens: the record with BPM "inv" has been projected
C3_Witness ==
    /\ pc = "projected"
    /\ Projected.f["BPM"] = StrV(<<"i", "n", "v">>)
    /\ ret = "True"

\* the BPM of the library track a reference key stands for, 0 without one
BpmOfKey(key) ==
    LET T == {i \in AllTracks : PyStr(db.tracks[i].f["ID"]) = key}
    IN IF T = {} THEN 0 ELSE RawBpm(db.tracks[CHOOSE i \in T : TRUE]).v

\* the references of node are in non-decreasing BPM order
InBpmOrder(node) ==
    \A i, j \in 1..Len(node.keys) :
        i < j => BpmOfKey(node.keys[i]) <= BpmOfKey(node.keys[j])

\* the run was not refused because the output file is there
PastOutputCheck == outcome.kind # "OutputExists"

\* C8: an export asked for with BPM ordering exports the playlists, the
\* tracks of every playlist in non-decreasing BPM order
C8_BpmOrdering ==
    (pc = "done" /\ request.orderby = "bpm" /\ PastOutputCheck
        /\ outcome.kind \notin {"ConnectError", "TrackError", "SaveError"}) =>
        /\ Exported
        /\ \A p \in PlaylistRows(db.playlists, 0) :
             \E n \in 1..Len(Doc.nodes) :
                 /\ Doc.nodes[n].row = p.Id
                 /\ InBpmOrder(Doc.nodes[n])

\* the ids of the rows of djmdPlaylist the saved documents have a node for
ExportedIds ==
    UNION {{d.nodes[n].row : n \in 1..Len(d.nodes)} :
             d \in {written[k] : k \in 1..Len(written)}}

\* the command ran with playlist selectors
Scoped == request.via = "cli" /\ request.playlists # <<>>

\* C9: an export scoped to playlists that all resolve contains exactly the
\* selected playlists and folders, their descendants and their ancestors
C9_ScopedExport ==
    (pc = "done" /\ Scoped /\ PastOutputCheck
        /\ UnresolvedSpecs(db.playlists, request.playlists) = {}
        /\ outcome.kind \notin {"ConnectError", "TrackError", "SaveError"}) =>
        ExportedIds = IncludedIds(db.playlists, request.playlists)

\* C10: an export with a selector that matches nothing fails as a whole,
\* before any XML is written, and the error names the selector
C10_UnresolvedNamed ==
    (pc = "done" /\ Scoped /\ PastOutputCheck
        /\ UnresolvedSpecs(db.playlists, request.playlists) # {}) =>
        /\ exitCode = 1
        /\ written = <<>>
        /\ outcome.kind \notin {"ok", "none"}
        /\ UnresolvedSpecs(db.playlists, request.playlists) \subseteq outcome.names

\* the run was asked for with the keyword kw and has ended, and neither the
\* database nor the output file made it fail
EndedWith(kw) ==
    /\ pc = "done"
    /\ kw \in request.kwargs
    /\ outcome.kind \notin {"ConnectError", "TrackError", "SaveError"}

\* the string s is a decimal number with two fraction digits, above zero
IsPositiveBpm(s) ==
    /\ Len(s) >= 4
    /\ s[Len(s) - 2] = "."
    /\ IsDigits(SubSeq(s, 1, Len(s) - 3))
    /\ IsDigits(SubSeq(s, Len(s) - 1, Len(s)))
    /\ DigitsValue(SubSeq(s, 1, Len(s) - 3)) + DigitsValue(SubSeq(s, Len(s) - 1, Len(s))) > 0

\* the integer part of such a number, written out
BpmIntegerPart(s) == NatToStr(DigitsValue(SubSeq(s, 1, Len(s) - 3)))

\* the i-th track of the library has a location and so belongs in COLLECTION
HasLocation(i) == ~ResolvedLocation(i).exc /\ ResolvedLocation(i).v # <<>>

\* C11: an export with BPM-prefix mode on exports the tracks, and every
\* track with an AverageBpm above zero has a Name that begins with the
\* integer part of the BPM and one space; a track with a zero or absent BPM
\* keeps its title as its Name
C11_BpmPrefix ==
    EndedWith("bpm") =>
        /\ Exported
        /\ \A i \in AllTracks : HasLocation(i) =>
             /\ EntriesOf(Doc.tracks, i) # {}
             /\ \A k \in EntriesOf(Doc.tracks, i) :
                  LET a == Doc.tracks[k].attrs
                  IN /\ "Name" \in DOMAIN a
                     /\ IF "AverageBpm" \in DOMAIN a /\ IsPositiveBpm(a["AverageBpm"])
                        THEN StartsWith(a["Name"], BpmIntegerPart(a["AverageBpm"]) \o <<" ">>)
                        ELSE a["Name"] = PyStr(db.tracks[i].f["Title"])

\* the text s is pure ASCII
IsAscii(s) == \A i \in 1..Len(s) : s[i] # "é"

\* C12: an export with romanization on is not made to fail by it, and a
\* track whose title, artist and album are ASCII is exported with Name,
\* Artist and Album unchanged
C12_AsciiUnchanged ==
    EndedWith("roman") =>
        /\ Exported
        /\ \A i \in AllTracks :
             LET f == db.tracks[i].f
             IN (HasLocation(i) /\ IsAscii(f["Title"].v) /\ IsAscii(f["Artist"].v)
                    /\ IsAscii(f["Album"].v)) =>
                  /\ EntriesOf(Doc.tracks, i) # {}
                  /\ \A k \in EntriesOf(Doc.tracks, i) :
                       /\ Doc.tracks[k].attrs["Name"] = f["Title"].v
                       /\ Doc.tracks[k].attrs["Artist"] = f["Artist"].v
                       /\ Doc.tracks[k].attrs["Album"] = f["Album"].v

\* C13: in the file the export has written, every TRACK of COLLECTION has
\* exactly one TEMPO child, and its Bpm is the AverageBpm of the TRACK
C13_OneTempoPerTrack ==
    Exported =>
        \A k \in 1..Len(Doc.tracks) :
            /\ Len(Doc.tracks[k].tempos) = 1
            /\ Doc.tracks[k].tempos[1].Bpm = Doc.tracks[k].attrs["AverageBpm"]

C15_MalformedTrackSkipped ==
    (pc = "done" /\ request.via = "api" /\ request.kwargs = {}
        /\ outcome.kind \notin {"ConnectError", "SaveError"}
        /\ \E i \in AllTracks : ResolvedLocation(i).exc) =>
        /\ outcome.kind = "ok"
        /\ Exported
        /\ \A i \in AllTracks : HasLocation(i) => EntriesOf(Doc.tracks, i) # {}

\* C16: the command, run without --force on an output path that exists, has
\* ended at once with exit code 1 and the message that the file exists: the
\* database was not connected, and the file is as it was
C16_NoOverwriteWithoutForce ==
    (request.via = "cli" /\ ~request.force /\ outFile # "absent") =>
        /\ pc = "done"
        /\ exitCode = 1
        /\ outcome.kind = "OutputExists"
        /\ ~dbOpen
        /\ written = <<>>
        /\ outFile = "old"

\* C16 happens: the command has been refused for an existing output file
C16_Witness ==
    /\ request.via = "cli"
    /\ ~request.force
    /\ outFile = "old"
    /\ exitCode = 1

\* C17: the output file is written at most once in a run, and only when the
\* COLLECTION stage and the PLAYLISTS stage are both over: what is written
\* is the finished document; a run that could not open the database, or
\* that failed before the save step, has written nothing
C17_WrittenOnceAtTheEnd ==
    /\ Len(written) <= 1
    /\ Exported =>
         /\ pc \in {"close", "done"}
         /\ Doc = [tracks |-> xmlTracks, nodes |-> xmlNodes]
         /\ added_tracks + failed_tracks = Cardinality({i \in AllTracks : HasLocation(i)})
         /\ {Doc.nodes[n].row : n \in 1..Len(Doc.nodes)} = {r.Id : r \in db.playlists}
    /\ outcome.kind \in {"ConnectError", "TrackError", "TypeError", "OutputExists"} =>
         /\ written = <<>>
         /\ outFile # "new"
    /\ outFile = "new" <=> Exported

\* C17 happens: a run has ended with the file written
C17_Witness ==
    /\ pc = "done"
    /\ outcome.kind = "ok"
    /\ Len(written) = 1
    /\ Len(Doc.tracks) >= 1
    /\ outFile = "new"

\* ----------------------------------------------- one record, its location
PathM == <<"/", "m">>
PathE == <<"/", "m", " ", "é">>
UrlA == FileScheme \o PathA
RelativeA == <<"a">>

\* the record with these location fields, a missing field left out
PathTrack(style, location, folder_path, file_name) ==
    LET all == [Location |-> location, FolderPath |-> folder_path, FileNameL |-> file_name]
    IN RecordOf(style, all)

\* the records _get_track_file_path is called with, as the tests of
\* test_track_file_path.py call it with objects and with mappings
PathTracks ==
    {PathTrack(st, l, fp, fn) :
        st \in {"attr", "dict"},
        l \in FieldValues({<<>>, UrlA, PathA, RelativeA, PathE}),
        fp \in FieldValues({<<>>, PathM, PathA, PathE}),
        fn \in FieldValues({<<>>, NameA, <<"é">>})}

InitPath ==
    /\ db \in [tracks : {<<t>> : t \in PathTracks}, playlists : {{}}, songs : {{}}]
    /\ outFile = "absent"
    /\ pc = "path"
    /\ Idle

\* _get_track_file_path called on the record
ResolveStep ==
    /\ pc = "path"
    /\ resolved' = GetTrackFilePath(db.tracks[1])
    /\ pc' = "resolved"
    /\ UNCHANGED <<db, request, dbOpen, xmlTracks, xmlNodes, folder_map, folderRows,
                   playlistRows, ti, added_tracks, failed_tracks, outFile, written,
                   outcome, exitCode, ret, closeError, rows, data, edit>>

NextPath == ResolveStep

SpecPath == InitPath /\ [][NextPath]_vars

\* the record _get_track_file_path was called with
Resolvee == db.tracks[1]

\* the record has the field name, as an attribute or as a key
Given(name) == name \in DOMAIN Resolvee.f

\* the record has the field name and it is a string that is not empty
NonEmpty(name) ==
    /\ Given(name)
    /\ Resolvee.f[name].k = "str"
    /\ Resolvee.f[name].v # <<>>

\* the text a percent-encoded URL stands for
RECURSIVE Unquoted(_)
Unquoted(s) ==
    IF s = <<>> THEN <<>>
    ELSE IF Len(s) >= 6 /\ SubSeq(s, 1, 6) = <<"%", "C", "3", "%", "A", "9">>
         THEN <<"é">> \o Unquoted(SubSeq(s, 7, Len(s)))
    ELSE IF Len(s) >= 3 /\ SubSeq(s, 1, 3) = <<"%", "2", "0">>
         THEN <<" ">> \o Unquoted(SubSeq(s, 4, Len(s)))
    ELSE <<Head(s)>> \o Unquoted(Tail(s))

\* url is the file URL of the absolute path p
IsFileUrlOf(url, p) ==
    /\ StartsWith(url, <<"f", "i", "l", "e", ":", "/", "/", "/">>)
    /\ \A i \in 1..Len(url) : url[i] \notin {" ", "é"}
    /\ Unquoted(url) = <<"f", "i", "l", "e", ":", "/", "/">> \o p

C19_AverageBpmNotOverwritten ==
    (pc = "projected" /\ "BPM" \in DOMAIN Projected.f /\ WholeBpm /\ Len(xmlTracks) = 1) =>
        IsHundredths(xmlTracks[1].attrs["AverageBpm"], WholeBpmValue)

\* the projection of the record takes the fallback path
OnFallbackPath == GetTrackFilePath(Projected).exc

\* the entries of the mapping table for xml_attr whose source field the
\* projection reads from the record and finds non-null
PresentAliases(xml_attr) ==
    {i \in 1..Len(TrackAttributeMapping) :
        /\ TrackAttributeMapping[i][2] = xml_attr
        /\ TrackAttributeMapping[i][1] \in DOMAIN Projected.f
        /\ Projected.style = "attr" \/ OnFallbackPath
        /\ Projected.f[TrackAttributeMapping[i][1]].k # "none"}

\* the XML attributes of the mapping table whose value is taken over from
\* the source field as it is
AliasedAttrs ==
    {TrackAttributeMapping[i][2] : i \in 1..Len(TrackAttributeMapping)}
        \ {"AverageBpm", "Location"}

\* the attribute xml_attr of the TRACK is the value of the alias at index i
EmitsAlias(xml_attr, i) ==
    xmlTracks[1].attrs[xml_attr] = PyStr(Projected.f[TrackAttributeMapping[i][1]])

\* C20 as stated: the value of an attribute with several aliases is that of
\* the first alias of the table present and non-null on the record
C20_FirstAliasWins ==
    (pc = "projected" /\ Len(xmlTracks) = 1) =>
        \A a \in AliasedAttrs :
            PresentAliases(a) # {} =>
                EmitsAlias(a, CHOOSE i \in PresentAliases(a) :
                                  \A j \in PresentAliases(a) : i <= j)

\* C20: the value of an attribute with several aliases is that of the last
\* alias, in the order of the merged table (alternative names, then main
\* names), that the projection finds present and non-null: every later
\* alias replaces the value of an earlier one
C20_LastAliasWins ==
    (pc = "projected" /\ Len(xmlTracks) = 1) =>
        \A a \in AliasedAttrs :
            PresentAliases(a) # {} =>
                EmitsAlias(a, CHOOSE i \in PresentAliases(a) :
                                  \A j \in PresentAliases(a) : j <= i)

\* C20 happens: an object with Artist "X" and ArtistName "Y" has been
\* projected on the attribute path
C20_Witness ==
    /\ pc = "projected"
    /\ Len(xmlTracks) = 1
    /\ Projected.style = "attr"
    /\ ~OnFallbackPath
    /\ "Artist" \in DOMAIN Projected.f /\ Projected.f["Artist"] = StrV(<<"X">>)
    /\ "ArtistName" \in DOMAIN Projected.f /\ Projected.f["ArtistName"] = StrV(<<"Y">>)
    /\ xmlTracks[1].attrs["Artist"] = <<"Y">>

\* the record gives no value for xml_attr: each of its source fields is
\* missing or null
NoSourceValue(xml_attr) ==
    \A i \in 1..Len(TrackAttributeMapping) :
        TrackAttributeMapping[i][2] = xml_attr =>
            \/ TrackAttributeMapping[i][1] \notin DOMAIN Projected.f
            \/ Projected.f[TrackAttributeMapping[i][1]].k = "none"

\* C21: the TRACK of a projected record has each of the nine required
\* attributes, with the empty string where the record gives no value, and
\* has no other attribute of the mapping table for which the record gives
\* no value
C21_RequiredDefaultsOthersOmitted ==
    (pc = "projected" /\ ret = "True") =>
        /\ Len(xmlTracks) = 1
        /\ RequiredAttrs \subseteq DOMAIN xmlTracks[1].attrs
        /\ \A a \in RequiredAttrs : NoSourceValue(a) => xmlTracks[1].attrs[a] = <<>>
        /\ \A i \in 1..Len(TrackAttributeMapping) :
              (TrackAttributeMapping[i][2] \notin RequiredAttrs
                   /\ NoSourceValue(TrackAttributeMapping[i][2]))
                  => TrackAttributeMapping[i][2] \notin DOMAIN xmlTracks[1].attrs

\* C21 happens: a record without Artist, with a null ArtistName and without
\* any BPM field has been projected: Artist is empty, AverageBpm is left out
C21_Witness ==
    /\ pc = "projected"
    /\ ret = "True"
    /\ Len(xmlTracks) = 1
    /\ "Artist" \notin DOMAIN Projected.f
    /\ "ArtistName" \in DOMAIN Projected.f /\ Projected.f["ArtistName"] = NoneV
    /\ NoSourceValue("Artist")
    /\ NoSourceValue("AverageBpm")
    /\ xmlTracks[1].attrs["Artist"] = <<>>
    /\ "AverageBpm" \notin DOMAIN xmlTracks[1].attrs

\* the walk of the playlist tree is over (or the run has ended without it)
PlaylistWalkOver == pc \notin {"idle", "connect", "tracks", "folders", "playlists"}

\* C22: the stages of a run follow one another as connect, playlist walk,
\* track projection, serialization: COLLECTION holds no track before the
\* playlist walk is over, and nothing is written before the projection is
C22_StagesInSequence ==
    /\ (xmlTracks # <<>> \/ xmlNodes # <<>>) => dbOpen \/ pc \in {"close", "done"}
    /\ xmlTracks # <<>> => PlaylistWalkOver
    /\ written # <<>> => pc \in {"close", "done"}

\* the row with this id is at most n parent links below the root
RECURSIVE RootedWithin(_, _, _)
RootedWithin(table, id, n) ==
    \/ id = 0
    \/ /\ n > 0
       /\ id \in RowIds(table)
       /\ RootedWithin(table, RowOf(table, id).ParentId, n - 1)

\* the table is a forest: the parent of every row is the root or a folder
\* row, and there is no cycle
IsForest(table) ==
    \A r \in table :
        /\ r.ParentId = 0 \/ \E f \in table : f.Id = r.ParentId /\ f.Attribute = 1
        /\ RootedWithin(table, r.Id, Cardinality(table))

\* the XML nodes made for the row with this id
NodesOf(id) == {k \in 1..Len(xmlNodes) : xmlNodes[k].row = id}

\* the playlist walk has come to its end
Walked == pc = "save"

\* C23: after the walk of a forest, every row whose parent is a folder row is
\* a child of that folder's node, and only the rows whose parent is the root
\* are children of the root node
C23_NestedUnderParent ==
    (Walked /\ IsForest(db.playlists)) =>
        \A r \in db.playlists :
            \E k \in NodesOf(r.Id) :
                IF r.ParentId = 0 THEN xmlNodes[k].parent = 0
                ELSE xmlNodes[k].parent \in NodesOf(r.ParentId)

\* C24: after the walk of a forest, of two rows with the same parent the one
\* with the smaller Seq has the earlier node among the children of their XML
\* parent, whether the rows are folders or playlists
C24_SiblingsInSeqOrder ==
    (Walked /\ IsForest(db.playlists)) =>
        \A r1, r2 \in db.playlists :
            (r1.ParentId = r2.ParentId /\ r1.Seq < r2.Seq) =>
                \A k1 \in NodesOf(r1.Id), k2 \in NodesOf(r2.Id) :
                    xmlNodes[k1].parent = xmlNodes[k2].parent => k1 < k2

\* _add_playlists has ended, by returning or by raising
WalkEnded == Walked \/ outcome.kind = "PlaylistError"

\* the row has exactly one XML node, a child of its parent's node or of the
\* root node
EmittedOnce(r) ==
    /\ Cardinality(NodesOf(r.Id)) = 1
    /\ \A k \in NodesOf(r.Id) :
          \/ xmlNodes[k].parent \in NodesOf(r.ParentId)
          \/ xmlNodes[k].parent = 0
    /\ (\A f \in db.playlists : f.Id # r.ParentId) =>
          \A k \in NodesOf(r.Id) : xmlNodes[k].parent = 0

\* C25: when _add_playlists has ended, for any table of rows, every row has
\* exactly one XML node, under its parent's node or under the root node, and
\* under the root node when its parent id is the id of no row
C25_EveryRowEmittedOnce ==
    WalkEnded => \A r \in db.playlists : EmittedOnce(r)

\* C26: for a record with a non-empty FolderPath and a non-empty FileNameL,
\* _get_track_file_path returns a location that is not empty, whatever the
\* Location of the record is (missing, None and '' included)
C26_PathFieldsGiveLocation ==
    (pc = "resolved" /\ NonEmpty("FolderPath") /\ NonEmpty("FileNameL")) =>
        /\ ~resolved.exc
        /\ resolved.v # <<>>

\* C27: a call of _add_track_to_xml that is counted as added (it returned
\* True) has put exactly one entry behind those of COLLECTION; a call that is
\* not has left COLLECTION as it was, a failing marker step included; so
\* added_tracks is the number of entries
C27_TrueIffAdded ==
    /\ [](added_tracks = Len(xmlTracks))
    /\ [][pc = "tracks" =>
            \/ /\ added_tracks' = added_tracks + 1
               /\ failed_tracks' = failed_tracks
               /\ Len(xmlTracks') = Len(xmlTracks) + 1
               /\ SubSeq(xmlTracks', 1, Len(xmlTracks)) = xmlTracks
            \/ /\ added_tracks' = added_tracks
               /\ xmlTracks' = xmlTracks]_vars

\* C27 happens: of three records the second has been added through the
\* retry, with a BPM that makes the marker step fail, and the third has failed
C27_Witness ==
    /\ pc = "tracks"
    /\ ti = 4
    /\ added_tracks = 2
    /\ failed_tracks = 1
    /\ Len(xmlTracks) = 2
    /\ xmlTracks[2].Location = UniqueLocation(xmlTracks[1].Location, <<"2">>)
    /\ xmlTracks[2].attrs["AverageBpm"] = <<"i", "n", "v">>

\* the parameter of export_rekordbox_db_to_xml the positional argument arg of
\* the call in cli.export is bound to, "none" when there is no such parameter
BoundParam(arg) ==
    LET k == CHOOSE i \in 1..Len(CliCallArgs) : CliCallArgs[i] = arg
    IN IF k <= Len(ExportParams) THEN ExportParams[k] ELSE "none"

\* C28: once the command is past the check of the output path, its call of
\* export_rekordbox_db_to_xml is accepted, with the key bound to db_key and
\* the verbose flag to verbose, and the command exits with 1 only when the
\* export itself has failed
C28_CliCallAccepted ==
    (request.via = "cli" /\ PastOutputCheck) =>
        /\ outcome.kind # "TypeError"
        /\ BoundParam("db_key") = "db_key"
        /\ BoundParam("verbose") = "verbose"
        /\ exitCode = 1 =>
              outcome.kind \in {"ConnectError", "TrackError", "PlaylistError", "SaveError"}

\* ---------------------------------------------------------------------
\* C29

\* following parent ids from the row with this id leaves the table within
\* n steps
RECURSIVE LeavesTable(_, _, _)
LeavesTable(table, id, n) ==
    \/ id \notin RowIds(table)
    \/ n > 0 /\ LeavesTable(table, RowOf(table, id).ParentId, n - 1)

\* the parent-id graph of the table is a forest: no row is on a cycle
ParentGraphIsForest(table) ==
    \A r \in table : LeavesTable(table, r.Id, Cardinality(table))

\* the row with this id is below the row anc, at most n parent links down
RECURSIVE IsBelow(_, _, _, _)
IsBelow(table, id, anc, n) ==
    /\ n > 0
    /\ id \in RowIds(table)
    /\ \/ RowOf(table, id).ParentId = anc
       \/ IsBelow(table, RowOf(table, id).ParentId, anc, n - 1)

\* the depth the k-th listed row is indented by
DepthAt(k) ==
    CHOOSE d \in 0..MaxRows :
        rows[k].name = Indent(d) \o RowOf(db.playlists, rows[k].id).Name

\* the listing is over
Listed == pc = "listed"

\* C29: for a table whose parent-id graph is a forest, list-playlists ends
\* and puts out every row exactly once; a row comes after the row of its
\* parent, indented one level more (a row whose parent is no row is not
\* indented); rows with the same parent come in ascending order of their
\* names; and the rows below a row follow it without a gap (pre-order,
\* depth first).
C29_ListIsPreOrder ==
    Listed /\ ParentGraphIsForest(db.playlists) =>
        /\ Len(rows) = Cardinality(db.playlists)
        /\ \A r \in db.playlists :
               Cardinality({k \in 1..Len(rows) : rows[k].id = r.Id}) = 1
        /\ \A k \in 1..Len(rows) :
               IF rows[k].parent_id \in RowIds(db.playlists)
               THEN \E j \in 1..(k - 1) :
                        /\ rows[j].id = rows[k].parent_id
                        /\ DepthAt(k) = DepthAt(j) + 1
               ELSE DepthAt(k) = 0
        /\ \A j, k \in 1..Len(rows) :
               j < k /\ rows[j].parent_id = rows[k].parent_id =>
                   NameRank(RowOf(db.playlists, rows[j].id).Name)
                       <= NameRank(RowOf(db.playlists, rows[k].id).Name)
        /\ \A k \in 1..Len(rows) :
               {j \in 1..Len(rows) :
                    IsBelow(db.playlists, rows[j].id, rows[k].id, MaxRows)}
                 = (k + 1)..(k + Cardinality({r \in db.playlists :
                                  IsBelow(db.playlists, r.Id, rows[k].id, MaxRows)}))

\* a forest of two levels was listed, and the second row by id came first
\* because of its name
C29_Witness ==
    /\ Listed
    /\ ParentGraphIsForest(db.playlists)
    /\ Len(rows) = MaxRows
    /\ \E k \in 1..Len(rows) : DepthAt(k) = 1
    /\ \E j, k \in 1..Len(rows) :
           /\ j < k
           /\ rows[j].parent_id = rows[k].parent_id
           /\ rows[j].id > rows[k].id
           /\ rows[j].name # rows[k].name

\* ---------------------------------------------------------------------
\* C30

\* the rows of the subtree of row f: the rows that follow it with a level
\* greater than its own, up to the first row whose level is not greater
SubtreeRows(d, f) ==
    {i \in (f + 1)..Len(d) : \A j \in (f + 1)..i : d[j].LEVEL_COL > d[f].LEVEL_COL}

\* setData was called for the Export box of a folder row and changed it
FolderExportChanged ==
    /\ edit'.row \in 1..Len(data)
    /\ edit'.col = "EXPORT_COL"
    /\ data[edit'.row].IS_FOLDER_COL
    /\ data'[edit'.row].EXPORT_COL # data[edit'.row].EXPORT_COL

\* C30: when setData changes the Export state of a folder row to v, every
\* row of the subtree of the folder has Export v afterwards, every row
\* outside the subtree keeps its Export state, and no other column of any
\* row is changed.
C30_ExportPropagatesToSubtreeOnly ==
    [][FolderExportChanged =>
          /\ Len(data') = Len(data)
          /\ \A i \in SubtreeRows(data, edit'.row) :
                 data'[i].EXPORT_COL = data'[edit'.row].EXPORT_COL
          /\ \A i \in 1..Len(data) :
                 i \notin SubtreeRows(data, edit'.row) \cup {edit'.row} =>
                     data'[i] = data[i]
          /\ \A i \in 1..Len(data) :
                 data'[i] = [data[i] EXCEPT !.EXPORT_COL = data'[i].EXPORT_COL]]_vars

\* the Export box of the first row, a folder with a folder below it and a
\* row below that, was checked, and the three rows are checked
C30_Witness ==
    /\ pc = "edited"
    /\ edit.row = 1 /\ edit.col = "EXPORT_COL" /\ edit.value = "Qt.Checked"
    /\ MaxRows >= 3
    /\ data[1].IS_FOLDER_COL /\ data[2].IS_FOLDER_COL
    /\ data[2].LEVEL_COL = 1 /\ data[3].LEVEL_COL = 2
    /\ \A i \in 1..3 : data[i].EXPORT_COL

====
